---- MODULE Spec2Model ----
(***************************************************************************)
(* Model of the BankNifty dispersion monitor's data service                *)
(* (src/services/data_service.py) and of the request handlers of           *)
(* src/app.py that drive it: the push feed (WebSocket) and poll loop       *)
(* life cycle, the one-slot snapshot cache and the snapshot fetch.         *)
(*                                                                         *)
(* Threads are modelled by their position: the threads started by          *)
(* start_websocket (ws_spawned, ws_connecting), the poll loop threads      *)
(* (poll) and the request handler threads (req).  The broker library       *)
(* (KiteConnect / KiteTicker) is the environment: its answers and its      *)
(* connect / close / error / ticks events are nondeterministic.            *)
(*                                                                         *)
(* The second part models src/services/calculation_service.py (the lot     *)
(* normalizer, the ATM and OTM dispersion calculations) and the two query  *)
(* handlers of src/app.py that call it, over snapshots with prices.        *)
(* Money is in whole rupees, weights are in hundredths of a percent.       *)
(***************************************************************************)
EXTENDS Integers, Sequences, FiniteSets, Bags, TLC

VARIABLES
    kite,               \* self.kite / self.kws are set (credentials present)
    instrument_tokens,  \* self.instrument_tokens (instruments that have a token)
    websocket_active,   \* self.websocket_active
    polling_active,     \* self.polling_active
    polling_interval,   \* self.polling_interval
    ws_spawned,         \* _run_websocket threads started, not yet at line 388
    ws_connecting,      \* _run_websocket threads inside kws.connect()
    conn,               \* the ticker's connection: "down", "up", "closing"
    live_quotes,        \* self.live_quotes (instruments that have a stored tick)
    data_callbacks,     \* self.data_callbacks
    data_cache,         \* self.data_cache: <<>> or <<market_data>>
    cache_timestamp,    \* self.cache_timestamp.get('market_data', 0)
    now,                \* the clock read by time.time() / datetime.now()
    poll,               \* the _run_polling threads: a bag of [pc, md]
    req,                \* the request threads inside a refresh: a bag of
                        \* [pc, caller, use_cache, md]
    last,               \* the step taken last: operation, state before, outcome,
                        \* snapshot, and the subscriber callbacks it called
    executor,           \* self.executor, the worker pool: "open" or "shutdown"
    stale_ticks,        \* the stored ticks that a connection since closed delivered
    cache_lock,         \* self.cache_lock: the thread that holds it, or NoThread
    threads,            \* the threads followed statement by statement through
                        \* the lock: [caller, use_cache, pc, md] per thread
    snapshot,           \* the market_data dict last fetched with its prices
    fetched,            \* the broker's answers that fetch got, per instrument
    calc                \* the calculation made last: operation, argument, result

service_vars == <<kite, instrument_tokens, websocket_active, polling_active,
                  polling_interval, ws_spawned, ws_connecting, conn, live_quotes,
                  data_callbacks, data_cache, cache_timestamp, now, poll, req, last,
                  executor, stale_ticks, cache_lock, threads>>

calc_vars == <<snapshot, fetched, calc>>

vars == <<kite, instrument_tokens, websocket_active, polling_active, polling_interval,
          ws_spawned, ws_connecting, conn, live_quotes, data_callbacks, data_cache,
          cache_timestamp, now, poll, req, last, executor, stale_ticks, cache_lock,
          threads, snapshot, fetched, calc>>

(***************************************************************************)
(* Bounds of the model.                                                    *)
(***************************************************************************)
MaxConstituents == 1
MaxTime == 3
MaxThreads == 2
MaxBasket == 2
MaxLevelsArg == 5
MaxIntervalArg == 3

(***************************************************************************)
(* Program constants.                                                      *)
(***************************************************************************)
CacheDuration == 2
DefaultPollingInterval == 4

Symbols == 1..MaxConstituents
Index == 0
Instruments == {Index} \cup Symbols
Callbacks == {"data_update_callback", "subscriber"}
NoCallback == "None"

(***************************************************************************)
(* The aggregator state the flags stand for.                               *)
(***************************************************************************)
AggState ==
    IF websocket_active /\ polling_active THEN "Both"
    ELSE IF websocket_active THEN "PushActive"
    ELSE IF polling_active THEN "PollActive"
    ELSE "Idle"

\* The record kept of the step taken: the operation, the aggregator state it
\* found, its outcome, the snapshot it fetched, put, delivered or returned, and
\* the callbacks it called with that snapshot, each with how the call ended.
\* A step of the data service makes no calculation, and none but cleanup and
\* get_concurrent_quotes touches the worker pool.
Notify(op, out, md, calls) ==
    /\ last' = [op |-> op, pre |-> AggState, out |-> out, md |-> md, calls |-> calls]
    /\ UNCHANGED <<executor, stale_ticks, cache_lock, threads, snapshot, fetched, calc>>

\* A step of the ticker: it leaves the ticks in stale as those that a closed
\* connection delivered.  The program keeps no such mark: live_quotes is
\* written at line 408 only and never cleared.
Feed(op, out, md, calls, stale) ==
    /\ last' = [op |-> op, pre |-> AggState, out |-> out, md |-> md, calls |-> calls]
    /\ stale_ticks' = stale
    /\ UNCHANGED <<executor, cache_lock, threads, snapshot, fetched, calc>>

\* A step that calls no callback.
Step(op, out, md) == Notify(op, out, md, <<>>)

\* A command that came with an argument.
Command(op, out, arg) ==
    /\ last' = [op |-> op, pre |-> AggState, out |-> out, md |-> <<>>, calls |-> <<>>,
                arg |-> arg]
    /\ UNCHANGED <<executor, stale_ticks, cache_lock, threads, snapshot, fetched, calc>>

(***************************************************************************)
(* Snapshots.  A fetch never raises out of _get_banknifty_data or          *)
(* _get_constituents_data: a failed index fetch leaves the index quote     *)
(* empty ({}), a failed constituent fetch leaves an entry tagged 'error'.  *)
(* Without the broker client every price is the mock price, so nothing     *)
(* fails.                                                                  *)
(***************************************************************************)
FetchOutcomes ==
    IF kite THEN [bn : BOOLEAN, err : SUBSET Symbols]
    ELSE {[bn |-> TRUE, err |-> {}]}

get_banknifty_data(o) == IF o.bn THEN "quote" ELSE "empty"

get_constituents_data(o) ==
    [s \in Symbols |-> IF s \in o.err THEN "error" ELSE "quote"]

\* The dict built at lines 122-126 of get_live_market_data.
market_data(o, t) ==
    [banknifty |-> get_banknifty_data(o),
     constituents |-> get_constituents_data(o),
     timestamp |-> t]

\* The age test with <= for <.
CacheFresh_inclusive ==
    /\ data_cache # <<>>
    /\ now - cache_timestamp <= CacheDuration

\* The age test of lines 116-118 and 520-522.
CacheFresh ==
    /\ data_cache # <<>>
    /\ now - cache_timestamp < CacheDuration

add_data_callback(cbs, callback) ==
    IF callback = NoCallback THEN cbs ELSE cbs \cup {callback}

\* The loop of _trigger_data_callbacks ended by the first callback that raises:
\* only the callbacks that raise are sure to have been called.
trigger_data_callbacks_abort(raising) ==
    [cb \in (IF raising = {} THEN data_callbacks ELSE raising) |->
        IF cb \in raising THEN "raised" ELSE "returned"]

\* _trigger_data_callbacks, lines 506-510: each registered callback is called
\* with the data inside its own try block; raising are the callbacks that
\* raise.
trigger_data_callbacks(raising) ==
    [cb \in data_callbacks |-> IF cb \in raising THEN "raised" ELSE "returned"]

\* The threads followed through the lock, and one that runs nothing.
Threads == 1..MaxThreads
NoThread == 0
IdleThread == [caller |-> "none", use_cache |-> FALSE, pc |-> "idle", md |-> <<>>]

\* A poll loop thread at its loop head.
ReadyPoll == [pc |-> "ready", md |-> <<>>]

\* The bag b with one thread moved from position t to position u, with a
\* thread at u added, and with the thread at t gone.
Moved(b, t, u) == (b (-) SetToBag({t})) (+) SetToBag({u})
Added(b, u) == b (+) SetToBag({u})
Removed(b, t) == b (-) SetToBag({t})

\* The threads of the service that are running: the _run_websocket threads
\* that have not settled their connection yet, the poll loops and the request
\* handlers inside a refresh.  The model lets at most MaxThreads run at a time.
LiveThreads ==
    ws_spawned + ws_connecting + BagCardinality(poll) + BagCardinality(req)

(***************************************************************************)
(* start_polling, as called by the handlers below: its effect on           *)
(* polling_active, data_callbacks and the poll loop threads.  cbs is the   *)
(* callback list at the call.                                              *)
(***************************************************************************)
do_start_polling(cbs, callback) ==
    IF polling_active
    THEN /\ data_callbacks' = cbs
         /\ UNCHANGED <<polling_active, poll>>
    ELSE /\ LiveThreads < MaxThreads
         /\ data_callbacks' = add_data_callback(cbs, callback)
         /\ polling_active' = TRUE
         /\ poll' = Added(poll, ReadyPoll)

Init ==
    /\ kite \in BOOLEAN
    /\ instrument_tokens \in (IF kite THEN {Instruments, {}} ELSE {Instruments})
    /\ websocket_active = FALSE
    /\ polling_active = FALSE
    /\ polling_interval = DefaultPollingInterval
    /\ ws_spawned = 0
    /\ ws_connecting = 0
    /\ conn = "down"
    /\ live_quotes = {}
    /\ data_callbacks = {}
    /\ data_cache = <<>>
    /\ cache_timestamp = 0
    /\ now = 0
    /\ poll = EmptyBag
    /\ req = EmptyBag
    /\ last = [op |-> "init", pre |-> "Idle", out |-> "", md |-> <<>>, calls |-> <<>>]
    /\ executor = "open"
    /\ stale_ticks = {}
    /\ cache_lock = NoThread
    /\ threads = [t \in Threads |-> IdleThread]
    /\ snapshot = <<>>
    /\ fetched = <<>>
    /\ calc = [op |-> "init"]

(***************************************************************************)
(* The push feed.                                                          *)
(***************************************************************************)
start_websocket(callback) ==
    /\ UNCHANGED <<kite, instrument_tokens, websocket_active, polling_interval,
                   ws_connecting, conn, live_quotes, data_cache, cache_timestamp,
                   now, req>>
    /\ \/ /\ ~kite
          /\ do_start_polling(data_callbacks, callback)
          /\ UNCHANGED ws_spawned
          /\ Step("start_websocket", "polling_fallback", <<>>)
       \/ /\ kite /\ websocket_active
          /\ UNCHANGED <<polling_active, poll, data_callbacks, ws_spawned>>
          /\ Step("start_websocket", "already_active", <<>>)
       \/ /\ kite /\ ~websocket_active /\ instrument_tokens = {}
          /\ UNCHANGED <<polling_active, poll, data_callbacks, ws_spawned>>
          /\ Step("start_websocket", "no_tokens", <<>>)
       \/ /\ kite /\ ~websocket_active /\ instrument_tokens # {}
          /\ LiveThreads < MaxThreads
          /\ data_callbacks' = add_data_callback(data_callbacks, callback)
          /\ ws_spawned' = ws_spawned + 1
          /\ UNCHANGED <<polling_active, poll>>
          /\ Step("start_websocket", "thread_started", <<>>)
       \/ /\ kite /\ ~websocket_active /\ instrument_tokens # {}
          /\ do_start_polling(add_data_callback(data_callbacks, callback), callback)
          /\ UNCHANGED ws_spawned
          /\ Step("start_websocket", "thread_error", <<>>)

run_websocket ==
    /\ ws_spawned > 0
    /\ websocket_active' = TRUE
    /\ ws_spawned' = ws_spawned - 1
    /\ ws_connecting' = ws_connecting + 1
    /\ Step("run_websocket", "connecting", <<>>)
    /\ UNCHANGED <<kite, instrument_tokens, polling_active, polling_interval, conn,
                   live_quotes, data_callbacks, data_cache, cache_timestamp, now,
                   poll, req>>

\* kws.connect() raises: the except branch of _run_websocket.
run_websocket_error ==
    /\ ws_connecting > 0
    /\ websocket_active' = FALSE
    /\ ws_connecting' = ws_connecting - 1
    /\ Step("run_websocket", "connect_error", <<>>)
    /\ UNCHANGED <<kite, instrument_tokens, polling_active, polling_interval,
                   ws_spawned, conn, live_quotes, data_callbacks, data_cache,
                   cache_timestamp, now, poll, req>>

\* kws.connect() gets its connection: the ticker calls on_connect, which
\* subscribes the tokens and changes nothing of the service.
\* on_websocket_connect marking the feed active whenever a connection comes up.
on_websocket_connect_sets_active ==
    /\ ws_connecting > 0
    /\ conn' = "up"
    /\ websocket_active' = TRUE
    /\ ws_connecting' = ws_connecting - 1
    /\ Step("on_websocket_connect", "connected", <<>>)
    /\ UNCHANGED <<kite, instrument_tokens, polling_active, polling_interval,
                   ws_spawned, live_quotes, data_callbacks, data_cache,
                   cache_timestamp, now, poll, req>>

on_websocket_connect ==
    /\ ws_connecting > 0
    /\ conn' = "up"
    /\ ws_connecting' = ws_connecting - 1
    /\ Step("on_websocket_connect", "connected", <<>>)
    /\ UNCHANGED <<kite, instrument_tokens, websocket_active, polling_active,
                   polling_interval, ws_spawned, live_quotes, data_callbacks,
                   data_cache, cache_timestamp, now, poll, req>>

\* on_websocket_close without the call of start_polling (what
\* _on_websocket_error does).
on_websocket_close_no_failover ==
    /\ conn \in {"up", "closing"}
    /\ conn' = "down"
    /\ websocket_active' = FALSE
    /\ Feed("on_websocket_close",
            IF conn = "closing" THEN "closed_by_stop" ELSE "disconnect", <<>>, <<>>,
            live_quotes)
    /\ UNCHANGED <<kite, instrument_tokens, polling_active, polling_interval,
                   ws_spawned, ws_connecting, live_quotes, data_callbacks,
                   data_cache, cache_timestamp, now, poll, req>>

\* The ticker's close event: the connection was lost (conn "up") or
\* stop_websocket has called kws.close() (conn "closing").
on_websocket_close ==
    /\ conn \in {"up", "closing"}
    /\ conn' = "down"
    /\ websocket_active' = FALSE
    /\ do_start_polling(data_callbacks, NoCallback)
    /\ Feed("on_websocket_close",
            IF conn = "closing" THEN "closed_by_stop" ELSE "disconnect", <<>>, <<>>,
            live_quotes)
    /\ UNCHANGED <<kite, instrument_tokens, polling_interval, ws_spawned,
                   ws_connecting, live_quotes, data_cache, cache_timestamp, now, req>>

on_websocket_error ==
    /\ conn = "up"
    /\ websocket_active' = FALSE
    /\ Step("on_websocket_error", "error", <<>>)
    /\ UNCHANGED <<kite, instrument_tokens, polling_active, polling_interval,
                   ws_spawned, ws_connecting, conn, live_quotes, data_callbacks,
                   data_cache, cache_timestamp, now, poll, req>>

stop_websocket ==
    /\ UNCHANGED <<kite, instrument_tokens, polling_active, polling_interval,
                   ws_spawned, ws_connecting, live_quotes, data_callbacks,
                   data_cache, cache_timestamp, now, poll, req>>
    /\ \/ /\ kite /\ websocket_active
          /\ conn' = (IF conn = "up" THEN "closing" ELSE conn)
          /\ websocket_active' = FALSE
          /\ Step("stop_websocket", "stopped", <<>>)
       \/ /\ kite /\ websocket_active
          /\ UNCHANGED <<conn, websocket_active>>
          /\ Step("stop_websocket", "close_error", <<>>)
       \/ /\ ~(kite /\ websocket_active)
          /\ UNCHANGED <<conn, websocket_active>>
          /\ Step("stop_websocket", "not_active", <<>>)

\* _on_websocket_ticks: the ticks are stored, then _trigger_data_callbacks()
\* with no data: with a subscriber registered it calls get_live_market_data()
\* (cached read, else refresh and put) and hands the result to each callback.
on_websocket_ticks(ticks) ==
    /\ conn = "up"
    /\ live_quotes' = live_quotes \cup ticks
    /\ UNCHANGED <<kite, instrument_tokens, websocket_active, polling_active,
                   polling_interval, ws_spawned, ws_connecting, conn,
                   data_callbacks, now, poll, req>>
    /\ \/ /\ data_callbacks = {}
          /\ UNCHANGED <<data_cache, cache_timestamp>>
          /\ Feed("on_websocket_ticks", "no_subscribers", <<>>, <<>>,
                  stale_ticks \ ticks)
       \/ /\ data_callbacks # {}
          /\ CacheFresh
          /\ UNCHANGED <<data_cache, cache_timestamp>>
          /\ \E raising \in SUBSET data_callbacks :
                Feed("on_websocket_ticks", "notified_cached", data_cache,
                     trigger_data_callbacks(raising), stale_ticks \ ticks)
       \/ /\ data_callbacks # {}
          /\ ~CacheFresh
          /\ \E o \in FetchOutcomes, raising \in SUBSET data_callbacks :
                /\ data_cache' = <<market_data(o, now)>>
                /\ cache_timestamp' = now
                /\ Feed("on_websocket_ticks", "notified_fresh", <<market_data(o, now)>>,
                        trigger_data_callbacks(raising), stale_ticks \ ticks)

(***************************************************************************)
(* The poller.                                                             *)
(***************************************************************************)
start_polling(callback) ==
    /\ do_start_polling(data_callbacks, callback)
    /\ Step("start_polling", IF polling_active THEN "already_active" ELSE "started", <<>>)
    /\ UNCHANGED <<kite, instrument_tokens, websocket_active, polling_interval,
                   ws_spawned, ws_connecting, conn, live_quotes, data_cache,
                   cache_timestamp, now, req>>

stop_polling ==
    /\ polling_active' = FALSE
    /\ Step("stop_polling", "stopped", <<>>)
    /\ UNCHANGED <<kite, instrument_tokens, websocket_active, polling_interval,
                   ws_spawned, ws_connecting, conn, live_quotes, data_callbacks,
                   data_cache, cache_timestamp, now, poll, req>>

\* The interval taken as requested.
new_polling_interval_unclamped(seconds) == seconds

\* Line 483: max(1, seconds).
new_polling_interval(seconds) == IF seconds > 1 THEN seconds ELSE 1

set_polling_interval(seconds) ==
    /\ polling_interval' = new_polling_interval(seconds)
    /\ Command("set_polling_interval", "set", seconds)
    /\ UNCHANGED <<kite, instrument_tokens, websocket_active, polling_active,
                   ws_spawned, ws_connecting, conn, live_quotes, data_callbacks,
                   data_cache, cache_timestamp, now, poll, req>>

\* _run_polling, loop head (after the sleep of the cycle before): the loop
\* ends when polling_active is false, else the cycle's fetch,
\* get_live_market_data(use_cache=False), is made.
run_polling_fetch(t) ==
    /\ t.pc = "ready"
    /\ \/ /\ ~polling_active
          /\ poll' = Removed(poll, t)
          /\ Step("run_polling", "exit", <<>>)
       \/ /\ polling_active
          /\ \E o \in FetchOutcomes :
                /\ poll' = Moved(poll, t, [pc |-> "put", md |-> <<market_data(o, now)>>])
                /\ Step("run_polling", "fetched", <<>>)
    /\ UNCHANGED <<kite, instrument_tokens, websocket_active, polling_active,
                   polling_interval, ws_spawned, ws_connecting, conn, live_quotes,
                   data_callbacks, data_cache, cache_timestamp, now, req>>

\* The put of the poll loop storing the value and leaving the timestamp.
run_polling_put_value_only(t) ==
    /\ t.pc = "put"
    /\ data_cache' = t.md
    /\ poll' = Moved(poll, t, [pc |-> "notify", md |-> t.md])
    /\ Step("run_polling", "put", t.md)
    /\ UNCHANGED <<kite, instrument_tokens, websocket_active, polling_active,
                   polling_interval, ws_spawned, ws_connecting, conn, live_quotes,
                   data_callbacks, cache_timestamp, now, req>>

\* _run_polling, lines 462-464: the put under cache_lock.
run_polling_put(t) ==
    /\ t.pc = "put"
    /\ data_cache' = t.md
    /\ cache_timestamp' = now
    /\ poll' = Moved(poll, t, [pc |-> "notify", md |-> t.md])
    /\ Step("run_polling", "put", t.md)
    /\ UNCHANGED <<kite, instrument_tokens, websocket_active, polling_active,
                   polling_interval, ws_spawned, ws_connecting, conn, live_quotes,
                   data_callbacks, now, req>>

\* The poll loop ended by a callback that raises.
run_polling_notify_unguarded(t) ==
    /\ t.pc = "notify"
    /\ \E raising \in SUBSET data_callbacks :
          /\ poll' = (IF raising = {} THEN Moved(poll, t, ReadyPoll) ELSE Removed(poll, t))
          /\ Notify("run_polling",
                    IF data_callbacks = {} THEN "no_subscribers" ELSE "notified",
                    t.md, trigger_data_callbacks(raising))
    /\ UNCHANGED <<kite, instrument_tokens, websocket_active, polling_active,
                   polling_interval, ws_spawned, ws_connecting, conn, live_quotes,
                   data_callbacks, data_cache, cache_timestamp, now, req>>

\* _run_polling, line 467: _trigger_data_callbacks(market_data), then the sleep.
run_polling_notify(t) ==
    /\ t.pc = "notify"
    /\ poll' = Moved(poll, t, ReadyPoll)
    /\ \E raising \in SUBSET data_callbacks :
          Notify("run_polling", IF data_callbacks = {} THEN "no_subscribers" ELSE "notified",
                 t.md, trigger_data_callbacks(raising))
    /\ UNCHANGED <<kite, instrument_tokens, websocket_active, polling_active,
                   polling_interval, ws_spawned, ws_connecting, conn, live_quotes,
                   data_callbacks, data_cache, cache_timestamp, now, req>>

(***************************************************************************)
(* getSnapshot: get_live_market_data(use_cache) and                        *)
(* get_live_market_data_cached(), each a request thread's steps.           *)
(***************************************************************************)
\* Lines 114-119: the cached read under cache_lock; a miss goes on to the fetch.
get_live_market_data(use_cache) ==
    /\ IF use_cache /\ CacheFresh
       THEN /\ UNCHANGED req
            /\ Step("get_live_market_data", "hit", data_cache)
       ELSE /\ LiveThreads < MaxThreads
            /\ req' = Added(req, [pc |-> "fetch", caller |-> "get_live_market_data",
                                   use_cache |-> use_cache, md |-> <<>>])
            /\ Step("get_live_market_data", IF use_cache THEN "refresh" ELSE "bypass", <<>>)
    /\ UNCHANGED <<kite, instrument_tokens, websocket_active, polling_active,
                   polling_interval, ws_spawned, ws_connecting, conn, live_quotes,
                   data_callbacks, data_cache, cache_timestamp, now, poll>>

\* Lines 519-526: the cached read; a miss calls get_live_market_data(use_cache=False).
get_live_market_data_cached ==
    /\ IF CacheFresh
       THEN /\ UNCHANGED req
            /\ Step("get_live_market_data_cached", "hit", data_cache)
       ELSE /\ LiveThreads < MaxThreads
            /\ req' = Added(req, [pc |-> "fetch", caller |-> "get_live_market_data_cached",
                                   use_cache |-> FALSE, md |-> <<>>])
            /\ Step("get_live_market_data_cached", "refresh", <<>>)
    /\ UNCHANGED <<kite, instrument_tokens, websocket_active, polling_active,
                   polling_interval, ws_spawned, ws_connecting, conn, live_quotes,
                   data_callbacks, data_cache, cache_timestamp, now, poll>>

\* Lines 121-126: the refresh.  With use_cache false the snapshot is returned
\* here (line 134) and the cache is not written.
get_live_market_data_fetch(t) ==
    /\ t.pc = "fetch"
    /\ \E o \in FetchOutcomes :
          IF t.use_cache
          THEN /\ req' = Moved(req, t, [pc |-> "put", caller |-> t.caller,
                                        use_cache |-> TRUE,
                                        md |-> <<market_data(o, now)>>])
               /\ Step(t.caller, "fetched", <<>>)
          ELSE /\ req' = Removed(req, t)
               /\ Step(t.caller, "return_uncached", <<market_data(o, now)>>)
    /\ UNCHANGED <<kite, instrument_tokens, websocket_active, polling_active,
                   polling_interval, ws_spawned, ws_connecting, conn, live_quotes,
                   data_callbacks, data_cache, cache_timestamp, now, poll>>

\* The put of a refresh that finds the cache refreshed by another caller in
\* the meantime keeping that caller's snapshot.
get_live_market_data_put_first_wins(t) ==
    /\ t.pc = "put"
    /\ data_cache' = (IF CacheFresh THEN data_cache ELSE t.md)
    /\ cache_timestamp' = (IF CacheFresh THEN cache_timestamp ELSE now)
    /\ req' = Removed(req, t)
    /\ Step(t.caller, "return_cached", t.md)
    /\ UNCHANGED <<kite, instrument_tokens, websocket_active, polling_active,
                   polling_interval, ws_spawned, ws_connecting, conn, live_quotes,
                   data_callbacks, now, poll>>

\* Lines 129-134: the put under cache_lock, and the return.
get_live_market_data_put(t) ==
    /\ t.pc = "put"
    /\ data_cache' = t.md
    /\ cache_timestamp' = now
    /\ req' = Removed(req, t)
    /\ Step(t.caller, "return_cached", t.md)
    /\ UNCHANGED <<kite, instrument_tokens, websocket_active, polling_active,
                   polling_interval, ws_spawned, ws_connecting, conn, live_quotes,
                   data_callbacks, now, poll>>

(***************************************************************************)
(* The control handlers of app.py.                                         *)
(***************************************************************************)
control_polling(action, interval) ==
    IF action = "start"
    THEN /\ polling_interval' = new_polling_interval(interval)
         /\ do_start_polling(data_callbacks, NoCallback)
         /\ Command("control_polling", "start", interval)
         /\ UNCHANGED <<kite, instrument_tokens, websocket_active, ws_spawned,
                        ws_connecting, conn, live_quotes, data_cache,
                        cache_timestamp, now, req>>
    ELSE IF action = "stop" THEN stop_polling
    ELSE set_polling_interval(interval)

control_websocket(action) ==
    IF action = "start" THEN start_websocket(NoCallback) ELSE stop_websocket

(***************************************************************************)
(* cleanup: stop_websocket(), stop_polling(), executor.shutdown(wait=True). *)
(* No work is ever submitted to the pool, so the shutdown does not wait.   *)
(* The outcome is that of the stop_websocket call.                         *)
(***************************************************************************)
cleanup ==
    /\ \E out \in {"stopped", "close_error", "not_active"} :
          /\ (out = "not_active") <=> ~(kite /\ websocket_active)
          /\ conn' = (IF out = "stopped" /\ conn = "up" THEN "closing" ELSE conn)
          /\ websocket_active' = (IF out = "stopped" THEN FALSE ELSE websocket_active)
          /\ last' = [op |-> "cleanup", pre |-> AggState, out |-> out, md |-> <<>>,
                      calls |-> <<>>]
    /\ polling_active' = FALSE
    /\ executor' = "shutdown"
    /\ UNCHANGED <<kite, instrument_tokens, polling_interval, ws_spawned, ws_connecting,
                   live_quotes, data_callbacks, data_cache, cache_timestamp, now, poll,
                   req>>
    /\ UNCHANGED <<stale_ticks, cache_lock, threads, snapshot, fetched, calc>>

\* The clock advances.
Tick ==
    /\ now < MaxTime
    /\ now' = now + 1
    /\ Step("clock", "tick", <<>>)
    /\ UNCHANGED <<kite, instrument_tokens, websocket_active, polling_active,
                   polling_interval, ws_spawned, ws_connecting, conn, live_quotes,
                   data_callbacks, data_cache, cache_timestamp, poll, req>>

(***************************************************************************)
(* Spec: every operation of the service at a fixed clock reading.          *)
(***************************************************************************)
Next ==
    \/ \E cb \in Callbacks \cup {NoCallback} : start_polling(cb)
    \/ stop_polling
    \/ \E cb \in Callbacks \cup {NoCallback} : start_websocket(cb)
    \/ stop_websocket
    \/ run_websocket
    \/ run_websocket_error
    \/ on_websocket_connect
    \/ on_websocket_close
    \/ on_websocket_error
    \/ \E ticks \in {Instruments} : on_websocket_ticks(ticks)
    \/ \E t \in BagToSet(poll) : run_polling_fetch(t)
    \/ \E t \in BagToSet(poll) : run_polling_put(t)
    \/ \E t \in BagToSet(poll) : run_polling_notify(t)
    \/ \E u \in BOOLEAN : get_live_market_data(u)
    \/ get_live_market_data_cached
    \/ \E t \in BagToSet(req) : get_live_market_data_fetch(t)
    \/ \E t \in BagToSet(req) : get_live_market_data_put(t)
    \/ \E a \in {"start", "stop", "set_interval"} : control_polling(a, DefaultPollingInterval)
    \/ \E a \in {"start", "stop"} : control_websocket(a)

Spec == Init /\ [][Next]_vars

(***************************************************************************)
(* SpecCache: the cache, the poller and the snapshot requests as the       *)
(* clock advances.                                                         *)
(***************************************************************************)
NextCache ==
    \/ Tick
    \/ \E u \in BOOLEAN : get_live_market_data(u)
    \/ get_live_market_data_cached
    \/ \E t \in BagToSet(req) : get_live_market_data_fetch(t)
    \/ \E t \in BagToSet(req) : get_live_market_data_put(t)
    \/ start_polling(NoCallback)
    \/ stop_polling
    \/ \E t \in BagToSet(poll) : run_polling_fetch(t)
    \/ \E t \in BagToSet(poll) : run_polling_put(t)
    \/ \E t \in BagToSet(poll) : run_polling_notify(t)

SpecCache == Init /\ [][NextCache]_vars

(***************************************************************************)
(* SpecLife: the life cycle of the two sources, the interval commands and  *)
(* the shutdown, with no subscriber registered.                            *)
(***************************************************************************)
\* The interval argument of a command: any integer of the bound; a
\* control_polling request without one has the default (app.py lines 111, 119).
IntervalArgs == (0 - MaxIntervalArg)..MaxIntervalArg

NextLife ==
    \/ start_websocket(NoCallback)
    \/ stop_websocket
    \/ run_websocket
    \/ run_websocket_error
    \/ on_websocket_connect
    \/ on_websocket_close
    \/ on_websocket_error
    \/ start_polling(NoCallback)
    \/ stop_polling
    \/ \E t \in BagToSet(poll) : run_polling_fetch(t)
    \/ \E t \in BagToSet(poll) : run_polling_put(t)
    \/ \E t \in BagToSet(poll) : run_polling_notify(t)
    \/ \E seconds \in IntervalArgs : set_polling_interval(seconds)
    \/ \E a \in {"start", "stop", "set_interval"},
          interval \in IntervalArgs \cup {DefaultPollingInterval} :
             control_polling(a, interval)
    \/ cleanup

SpecLife == Init /\ [][NextLife]_vars

(***************************************************************************)
(* SpecLive: the poller, the subscribers and the snapshot requests at a    *)
(* fixed clock reading, with the threads scheduled fairly: a poll loop     *)
(* thread and a request thread are threads of their own (lines 450-451,    *)
(* one per request in the server), so one that can take a step does so.    *)
(***************************************************************************)
PollStep ==
    \E t \in BagToSet(poll) :
        run_polling_fetch(t) \/ run_polling_put(t) \/ run_polling_notify(t)

ReqStep ==
    \E t \in BagToSet(req) : get_live_market_data_fetch(t) \/ get_live_market_data_put(t)

NextLive ==
    \/ \E cb \in Callbacks \cup {NoCallback} : start_polling(cb)
    \/ stop_polling
    \/ PollStep
    \/ \E u \in BOOLEAN : get_live_market_data(u)
    \/ get_live_market_data_cached
    \/ ReqStep

SpecLive == Init /\ [][NextLive]_vars /\ WF_vars(PollStep) /\ WF_vars(ReqStep)

(***************************************************************************)
(* SpecNotify: the poll loop with a subscriber and the refreshing          *)
(* requests, as the clock advances.                                        *)
(***************************************************************************)
NextNotify ==
    \/ Tick
    \/ start_polling("subscriber")
    \/ \E t \in BagToSet(poll) : run_polling_fetch(t)
    \/ \E t \in BagToSet(poll) : run_polling_put(t)
    \/ \E t \in BagToSet(poll) : run_polling_notify(t)
    \/ get_live_market_data(TRUE)
    \/ \E t \in BagToSet(req) : get_live_market_data_fetch(t)
    \/ \E t \in BagToSet(req) : get_live_market_data_put(t)

SpecNotify == Init /\ [][NextNotify]_vars

(***************************************************************************)
(* The prices.  _get_spot_price serves a price from the stored tick of the *)
(* instrument while the websocket flag is set, else the broker's quote,    *)
(* else the mock price; the broker's quote may be missing or the call may  *)
(* fail, and then the mock price is served.                                *)
(***************************************************************************)
spot_price_sources(symbol) ==
    IF websocket_active /\ live_quotes # {}
       /\ symbol \in instrument_tokens /\ symbol \in live_quotes
    THEN {"tick"}
    ELSE IF ~kite THEN {"mock"}
    ELSE IF symbol \notin instrument_tokens THEN {"mock"}
    ELSE {"quote", "mock"}

\* One call of _get_spot_price: the outcome is where the price came from.
get_spot_price_call(symbol) ==
    /\ \E source \in spot_price_sources(symbol) :
          Command("get_spot_price", source, symbol)
    /\ UNCHANGED <<kite, instrument_tokens, websocket_active, polling_active,
                   polling_interval, ws_spawned, ws_connecting, conn, live_quotes,
                   data_callbacks, data_cache, cache_timestamp, now, poll, req>>

\* The quotes of get_concurrent_quotes on its tick path (lines 534-542).
tick_quotes(symbols) ==
    [symbol \in symbols |->
        IF symbol \in instrument_tokens /\ symbol \in live_quotes THEN "tick"
        ELSE "mock"]

\* get_concurrent_quotes.  Without the broker client every quote is the mock
\* price; with the websocket flag set and a tick stored, the quotes come from
\* the ticks.  Otherwise each symbol is submitted to self.executor inside
\* "with self.executor:", whose exit shuts the pool down (and waits for the
\* workers, so no result is late); submit() on a pool that was shut down, by
\* an earlier call or by cleanup, raises RuntimeError outside any try.
get_concurrent_quotes(symbols) ==
    /\ UNCHANGED <<kite, instrument_tokens, websocket_active, polling_active,
                   polling_interval, ws_spawned, ws_connecting, conn, live_quotes,
                   data_callbacks, data_cache, cache_timestamp, now, poll, req>>
    /\ UNCHANGED <<stale_ticks, cache_lock, threads, snapshot, fetched, calc>>
    /\ \/ /\ ~kite
          /\ UNCHANGED executor
          /\ last' = [op |-> "get_concurrent_quotes", pre |-> AggState,
                      out |-> "returned", md |-> <<>>, calls |-> <<>>, arg |-> symbols,
                      quotes |-> [symbol \in symbols |-> "mock"], pool |-> executor]
       \/ /\ kite /\ websocket_active /\ live_quotes # {}
          /\ UNCHANGED executor
          /\ last' = [op |-> "get_concurrent_quotes", pre |-> AggState,
                      out |-> "returned", md |-> <<>>, calls |-> <<>>, arg |-> symbols,
                      quotes |-> tick_quotes(symbols), pool |-> executor]
       \/ /\ kite /\ ~(websocket_active /\ live_quotes # {})
          /\ executor = "shutdown" /\ symbols # {}
          /\ UNCHANGED executor
          /\ last' = [op |-> "get_concurrent_quotes", pre |-> AggState,
                      out |-> "raised", md |-> <<>>, calls |-> <<>>, arg |-> symbols,
                      quotes |-> <<>>, pool |-> executor]
       \/ /\ kite /\ ~(websocket_active /\ live_quotes # {})
          /\ ~(executor = "shutdown" /\ symbols # {})
          /\ executor' = "shutdown"
          /\ \E quotes \in [symbols -> {"quote", "mock"}] :
                /\ \A symbol \in symbols : quotes[symbol] \in spot_price_sources(symbol)
                /\ last' = [op |-> "get_concurrent_quotes", pre |-> AggState,
                            out |-> "returned", md |-> <<>>, calls |-> <<>>,
                            arg |-> symbols, quotes |-> quotes, pool |-> executor]

(***************************************************************************)
(* The cache lock, statement by statement.  A thread enters a "with        *)
(* self.cache_lock:" block by acquiring the lock (it waits while another   *)
(* thread holds it) and releases it when it leaves the block, by falling   *)
(* out of it or by the return inside it.                                   *)
(***************************************************************************)
LockStep(t, op, out, md, to) ==
    /\ threads' = [threads EXCEPT ![t] = to]
    /\ last' = [op |-> op, pre |-> AggState, out |-> out, md |-> md, calls |-> <<>>]
    /\ UNCHANGED <<kite, instrument_tokens, websocket_active, polling_interval,
                   ws_spawned, ws_connecting, conn, live_quotes, now, poll, req>>
    /\ UNCHANGED <<executor, stale_ticks, snapshot, fetched, calc>>

At(t, pc) == [threads[t] EXCEPT !.pc = pc]

\* Lines 111-114: get_live_market_data is called; with use_cache it goes to
\* the lock of line 115, else straight to the fetch.
lock_get_live_market_data(t, use_cache) ==
    /\ threads[t].pc = "idle"
    /\ LockStep(t, "get_live_market_data", "called", <<>>,
                [caller |-> "get_live_market_data", use_cache |-> use_cache,
                 pc |-> IF use_cache THEN "acquire_read" ELSE "fetch", md |-> <<>>])
    /\ UNCHANGED <<cache_lock, polling_active, data_callbacks, data_cache,
                   cache_timestamp>>

\* Lines 517-519: get_live_market_data_cached is called and goes to its lock.
lock_get_live_market_data_cached(t) ==
    /\ threads[t].pc = "idle"
    /\ LockStep(t, "get_live_market_data_cached", "called", <<>>,
                [caller |-> "get_live_market_data_cached", use_cache |-> FALSE,
                 pc |-> "acquire_read", md |-> <<>>])
    /\ UNCHANGED <<cache_lock, polling_active, data_callbacks, data_cache,
                   cache_timestamp>>

\* Lines 440-452 and 456: start_polling registers the callback and starts the
\* _run_polling thread, which passes its loop test and goes to the fetch.
lock_start_polling(t, callback) ==
    /\ threads[t].pc = "idle"
    /\ ~polling_active
    /\ polling_active' = TRUE
    /\ data_callbacks' = add_data_callback(data_callbacks, callback)
    /\ LockStep(t, "start_polling", "started", <<>>,
                [caller |-> "run_polling", use_cache |-> FALSE, pc |-> "fetch",
                 md |-> <<>>])
    /\ UNCHANGED <<cache_lock, data_cache, cache_timestamp>>

\* Entering a with block (lines 115, 130, 462, 519).
lock_acquire(t) ==
    /\ threads[t].pc \in {"acquire_read", "acquire_swap"}
    /\ cache_lock = NoThread
    /\ cache_lock' = t
    /\ LockStep(t, threads[t].caller, "acquired", <<>>,
                At(t, IF threads[t].pc = "acquire_read" THEN "read" ELSE "swap"))
    /\ UNCHANGED <<polling_active, data_callbacks, data_cache, cache_timestamp>>

\* The age test with the lock kept on a miss, as if the fetch were inside the
\* with block.
lock_read_keeps_lock(t) ==
    /\ threads[t].pc = "read"
    /\ cache_lock = t
    /\ cache_lock' = (IF CacheFresh THEN NoThread ELSE t)
    /\ IF CacheFresh
       THEN LockStep(t, threads[t].caller, "hit", data_cache, IdleThread)
       ELSE LockStep(t, threads[t].caller, "miss", <<>>, At(t, "fetch"))
    /\ UNCHANGED <<polling_active, data_callbacks, data_cache, cache_timestamp>>

\* Lines 116-119 and 520-523: the age test under the lock.  A hit returns the
\* cached snapshot; a miss falls out of the block.  Either way the lock is
\* released.
lock_read(t) ==
    /\ threads[t].pc = "read"
    /\ cache_lock = t
    /\ cache_lock' = NoThread
    /\ IF CacheFresh
       THEN LockStep(t, threads[t].caller, "hit", data_cache, IdleThread)
       ELSE LockStep(t, threads[t].caller, "miss", <<>>, At(t, "fetch"))
    /\ UNCHANGED <<polling_active, data_callbacks, data_cache, cache_timestamp>>

\* Lines 121-126 (and 458, 526, which call them with use_cache false): the
\* network fetch.  A request that does not use the cache returns here.
lock_fetch(t) ==
    /\ threads[t].pc = "fetch"
    /\ \E o \in FetchOutcomes :
          IF threads[t].use_cache \/ threads[t].caller = "run_polling"
          THEN LockStep(t, threads[t].caller, "fetched", <<>>,
                        [threads[t] EXCEPT !.pc = "acquire_swap",
                                           !.md = <<market_data(o, now)>>])
          ELSE LockStep(t, threads[t].caller, "return_uncached",
                        <<market_data(o, now)>>, IdleThread)
    /\ UNCHANGED <<cache_lock, polling_active, data_callbacks, data_cache,
                   cache_timestamp>>

\* Lines 131-132 and 463-464: value and timestamp are swapped under the lock,
\* which is released at the end of the block.  The request returns; the poll
\* loop goes on to its callbacks.
lock_swap(t) ==
    /\ threads[t].pc = "swap"
    /\ cache_lock = t
    /\ cache_lock' = NoThread
    /\ data_cache' = threads[t].md
    /\ cache_timestamp' = now
    /\ IF threads[t].caller = "run_polling"
       THEN LockStep(t, "run_polling", "put", threads[t].md, At(t, "callbacks"))
       ELSE LockStep(t, threads[t].caller, "put", threads[t].md, IdleThread)
    /\ UNCHANGED <<polling_active, data_callbacks>>

\* Line 467: _trigger_data_callbacks(market_data) has called every subscriber.
lock_callbacks(t) ==
    /\ threads[t].pc = "callbacks"
    /\ LockStep(t, "run_polling",
                IF data_callbacks = {} THEN "no_subscribers" ELSE "notified",
                threads[t].md, [threads[t] EXCEPT !.pc = "sleep", !.md = <<>>])
    /\ UNCHANGED <<cache_lock, polling_active, data_callbacks, data_cache,
                   cache_timestamp>>

\* Lines 472 and 456: the loop wakes and tests polling_active.
lock_wake(t) ==
    /\ threads[t].pc = "sleep"
    /\ IF polling_active
       THEN LockStep(t, "run_polling", "next_cycle", <<>>, At(t, "fetch"))
       ELSE LockStep(t, "run_polling", "ended", <<>>, IdleThread)
    /\ UNCHANGED <<cache_lock, polling_active, data_callbacks, data_cache,
                   cache_timestamp>>

(***************************************************************************)
(* SpecLock: the threads that take the cache lock, with the poll loop      *)
(* started and stopped.                                                    *)
(***************************************************************************)
NextLock ==
    \/ \E t \in Threads, u \in BOOLEAN : lock_get_live_market_data(t, u)
    \/ \E t \in Threads : lock_get_live_market_data_cached(t)
    \/ \E t \in Threads, cb \in {"subscriber", NoCallback} : lock_start_polling(t, cb)
    \/ stop_polling
    \/ \E t \in Threads : lock_acquire(t)
    \/ \E t \in Threads : lock_read(t)
    \/ \E t \in Threads : lock_fetch(t)
    \/ \E t \in Threads : lock_swap(t)
    \/ \E t \in Threads : lock_callbacks(t)
    \/ \E t \in Threads : lock_wake(t)

SpecLock == Init /\ [][NextLock]_vars

(***************************************************************************)
(* SpecQuotes: the ticker's life cycle, its ticks, and the prices served.  *)
(***************************************************************************)
NextQuotes ==
    \/ start_websocket(NoCallback)
    \/ stop_websocket
    \/ run_websocket
    \/ run_websocket_error
    \/ on_websocket_connect
    \/ on_websocket_close
    \/ on_websocket_error
    \/ \E ticks \in SUBSET Instruments \ {{}} : on_websocket_ticks(ticks)
    \/ \E symbol \in Instruments : get_spot_price_call(symbol)
    \/ \E symbols \in SUBSET Instruments : get_concurrent_quotes(symbols)
    \/ cleanup

SpecQuotes == Init /\ [][NextQuotes]_vars

(***************************************************************************)
(* The static instrument table (src/data/banknifty_constituents.py), in    *)
(* the table's order.  Weights are in hundredths of a percent.  The        *)
(* calculation model works on the first MaxBasket constituents.            *)
(***************************************************************************)
BANKNIFTY_CONSTITUENTS ==
    << [symbol |-> "HDFCBANK",   weight |-> 2861, lot_size |-> 550],
       [symbol |-> "ICICIBANK",  weight |-> 2605, lot_size |-> 1375],
       [symbol |-> "SBIN",       weight |-> 911,  lot_size |-> 1500],
       [symbol |-> "KOTAKBANK",  weight |-> 810,  lot_size |-> 400],
       [symbol |-> "AXISBANK",   weight |-> 782,  lot_size |-> 1200],
       [symbol |-> "INDUSINDBK", weight |-> 337,  lot_size |-> 900],
       [symbol |-> "FEDERALBNK", weight |-> 325,  lot_size |-> 10000],
       [symbol |-> "IDFCFIRSTB", weight |-> 311,  lot_size |-> 10000],
       [symbol |-> "BANDHANBNK", weight |-> 298,  lot_size |-> 1800],
       [symbol |-> "AUBANK",     weight |-> 279,  lot_size |-> 1200] >>

BankniftyLotSize == 15
ReferencePortfolio == 60000000
WeightScale == 10000

\* _get_mock_spot_price, for the index and for the constituents in table order.
MockIndexPrice == 45000
MockPrices == <<1650, 950, 600, 1800, 1100, 1400, 150, 80, 250, 700>>

AtmThreshold == 10000
IndexStrikeInterval == 100
StockStrikeInterval == 50
MockPremiumDivisor == 50
OtmLevelClamp == 3
DefaultLevels == 1

Basket == 1..MaxBasket
BasketInstruments == {Index} \cup Basket

\* An empty dict.  Dicts are functions; `k in d` is k \in DOMAIN d, `not d` is
\* DOMAIN d = {}.
EmptyDict == <<>>

\* d.get(k, default)
Get(d, k, default) == IF k \in DOMAIN d THEN d[k] ELSE default

Maximum(a, b) == IF a > b THEN a ELSE b

RECURSIVE SumOver(_, _)
SumOver(f, S) ==
    IF S = {} THEN 0
    ELSE LET x == CHOOSE y \in S : TRUE
         IN  f[x] + SumOver(f, S \ {x})

\* get_total_weight (banknifty_constituents.py, lines 72-74), in hundredths
\* of a percent.
get_total_weight ==
    SumOver([i \in DOMAIN BANKNIFTY_CONSTITUENTS |-> BANKNIFTY_CONSTITUENTS[i].weight],
            DOMAIN BANKNIFTY_CONSTITUENTS)

\* Python's round() of num / den for num >= 0 and den > 0: to the nearest
\* integer, a tie to the even one.
round(num, den) ==
    LET q == num \div den
        r == num % den
    IN  IF 2 * r < den THEN q
        ELSE IF 2 * r > den THEN q + 1
        ELSE IF q % 2 = 0 THEN q ELSE q + 1

\* _calculate_atm_strike (the same code in both services).
calculate_atm_strike(spot_price) ==
    IF spot_price > AtmThreshold
    THEN round(spot_price, IndexStrikeInterval) * IndexStrikeInterval
    ELSE round(spot_price, StockStrikeInterval) * StockStrikeInterval

\* _get_option_data: no option instrument has a token, so the quote is the
\* mock one, whose ltp is 2% of the strike.
get_option_data(strike) == [ltp |-> strike \div MockPremiumDivisor]

(***************************************************************************)
(* The broker's answers to one fetch-all pass, per instrument: a last      *)
(* price, no price (last_price None, which makes the instrument's try      *)
(* block raise a TypeError), or a quote call that raises.  Without the     *)
(* broker client there is no answer and the price is the mock price.       *)
(***************************************************************************)
NoPrice == -1
BrokerError == -2

mock_spot_price(i) == IF i = Index THEN MockIndexPrice ELSE MockPrices[i]

BrokerPrices(i) ==
    IF i = Index THEN {BrokerError, NoPrice, 0, 9960, MockIndexPrice}
    ELSE {BrokerError, NoPrice, 0, MockPrices[i], 70030}

BrokerAnswers ==
    IF kite
    THEN {a \in [BasketInstruments -> UNION {BrokerPrices(i) : i \in BasketInstruments}] :
             \A i \in BasketInstruments : a[i] \in BrokerPrices(i)}
    ELSE {[i \in BasketInstruments |-> mock_spot_price(i)]}

\* _get_spot_price: the broker's last price; the mock price when the quote
\* call raises (lines 234-237) or when there is no broker client.
get_spot_price(i, a) ==
    IF ~kite \/ a[i] = BrokerError THEN mock_spot_price(i) ELSE a[i]

\* The dict the try block of _get_banknifty_data / _get_constituents_data
\* builds from a spot price.
quote_of(spot_price) ==
    LET atm_strike == calculate_atm_strike(spot_price)
        call_data == get_option_data(atm_strike)
        put_data == get_option_data(atm_strike)
    IN  [spot_price |-> spot_price,
         atm_strike |-> atm_strike,
         call |-> call_data,
         put |-> put_data,
         straddle_premium |-> call_data.ltp + put_data.ltp]

\* _get_banknifty_data with its prices: {} when the try block raises.
banknifty_quote(a) ==
    IF get_spot_price(Index, a) = NoPrice THEN EmptyDict
    ELSE quote_of(get_spot_price(Index, a))

\* The entry _get_constituents_data stores for one symbol.
constituent_entry(s, a) ==
    IF get_spot_price(s, a) = NoPrice
    THEN [error |-> "TypeError",
          weight |-> BANKNIFTY_CONSTITUENTS[s].weight,
          lot_size |-> BANKNIFTY_CONSTITUENTS[s].lot_size]
    ELSE quote_of(get_spot_price(s, a)) @@ [weight |-> BANKNIFTY_CONSTITUENTS[s].weight,
                                            lot_size |-> BANKNIFTY_CONSTITUENTS[s].lot_size]

\* The loop with a failing symbol ending the pass.
RECURSIVE constituents_loop_abort(_, _, _)
constituents_loop_abort(s, a, acc) ==
    IF s > MaxBasket THEN acc
    ELSE IF get_spot_price(s, a) = NoPrice THEN acc
    ELSE constituents_loop_abort(s + 1, a, acc @@ (s :> constituent_entry(s, a)))

\* The loop of _get_constituents_data over the table, from symbol s on.
RECURSIVE constituents_loop(_, _, _)
constituents_loop(s, a, acc) ==
    IF s > MaxBasket THEN acc
    ELSE constituents_loop(s + 1, a, acc @@ (s :> constituent_entry(s, a)))

\* The dict of lines 122-126 of get_live_market_data, with its prices.
live_market_data(a) ==
    [banknifty |-> banknifty_quote(a),
     constituents |-> constituents_loop(1, a, EmptyDict),
     timestamp |-> now]

(***************************************************************************)
(* The lot normalizer.                                                     *)
(***************************************************************************)
\* lots_needed without the floor of one lot.
lots_unclamped(target, value) == round(target, value)

\* lots_needed rounded down.
lots_truncated(target, value) == Maximum(1, target \div value)

\* Lines 116-119 and 127: max(1, round(target_value / lot_value)).
lots(target, value) == Maximum(1, round(target, value))

\* The target without the weight.
target_value_unweighted(weight) == ReferencePortfolio

\* Line 115: reference_portfolio * (weight / 100).
target_value(weight) == (ReferencePortfolio \div WeightScale) * weight

\* Every entry taken, the Error-tagged ones too.
all_entries(constituents_data) == DOMAIN constituents_data

\* The constituents the loops of the calculation take: no 'error' key.
without_error(constituents_data) ==
    {s \in DOMAIN constituents_data : "error" \notin DOMAIN constituents_data[s]}

lot_value(data) == Get(data, "spot_price", 0) * Get(data, "lot_size", 0)

\* _calculate_normalized_lots.  The key 'banknifty' is Index.  A zero lot value
\* makes line 116 raise ZeroDivisionError, which the except turns into {}.
calculate_normalized_lots(constituents_data, banknifty_data) ==
    LET taken == without_error(constituents_data)
        banknifty_spot == Get(banknifty_data, "spot_price", 0)
        banknifty_lots ==
            IF banknifty_spot > 0
            THEN lots(ReferencePortfolio, banknifty_spot * BankniftyLotSize)
            ELSE 1
    IN  IF \E s \in taken : lot_value(constituents_data[s]) = 0
        THEN EmptyDict
        ELSE [i \in taken \cup {Index} |->
                 IF i = Index THEN banknifty_lots
                 ELSE lots(target_value(Get(constituents_data[i], "weight", 0)),
                           lot_value(constituents_data[i]))]

\* _calculate_banknifty_position
calculate_banknifty_position(banknifty_data, n) ==
    Get(banknifty_data, "straddle_premium", 0) * BankniftyLotSize * n

\* The leg premium with the index lot size in place of the constituent's.
position_premium_index_lot(data, n) ==
    Get(data, "straddle_premium", 0) * BankniftyLotSize * n

\* Line 170.
position_premium(data, n) ==
    Get(data, "straddle_premium", 0) * Get(data, "lot_size", 0) * n

\* _calculate_constituents_positions
calculate_constituents_positions(constituents_data, normalized_lots) ==
    LET taken == without_error(constituents_data) \cap DOMAIN normalized_lots
        positions ==
            [s \in taken |->
                [premium |-> position_premium(constituents_data[s], normalized_lots[s]),
                 lots |-> normalized_lots[s],
                 straddle_price |-> Get(constituents_data[s], "straddle_premium", 0),
                 lot_size |-> Get(constituents_data[s], "lot_size", 0),
                 weight |-> Get(constituents_data[s], "weight", 0),
                 strike |-> Get(constituents_data[s], "atm_strike", NoPrice),
                 spot_price |-> Get(constituents_data[s], "spot_price", 0)]]
    IN  [positions |-> positions,
         total_premium |-> SumOver([s \in taken |-> positions[s].premium], taken)]

\* The portfolio value taken over every entry of the snapshot, the
\* error-tagged ones too.
calculate_portfolio_value_all_entries(constituents_data, normalized_lots) ==
    LET taken == all_entries(constituents_data)
        breakdown ==
            [s \in taken |->
                lot_value(constituents_data[s]) * Get(normalized_lots, s, 0)]
    IN  [total_value |-> SumOver(breakdown, taken),
         breakdown |-> breakdown,
         target_value |-> ReferencePortfolio]

\* _calculate_portfolio_value
calculate_portfolio_value(constituents_data, normalized_lots) ==
    LET taken == without_error(constituents_data) \cap DOMAIN normalized_lots
        breakdown ==
            [s \in taken |-> lot_value(constituents_data[s]) * normalized_lots[s]]
    IN  [total_value |-> SumOver(breakdown, taken),
         breakdown |-> breakdown,
         target_value |-> ReferencePortfolio]

(***************************************************************************)
(* The ATM calculation.  The result is [raised, value]: raised names the   *)
(* exception that leaves the function ("" when it returns).                *)
(***************************************************************************)
Raise(e) == [raised |-> e, value |-> EmptyDict]
Return(v) == [raised |-> "", value |-> v]

\* Lines 29-54 of calculate_dispersion_premium.
dispersion_of(md, banknifty_data, constituents_data) ==
    LET normalized_lots == calculate_normalized_lots(constituents_data, banknifty_data)
    IN  IF Index \notin DOMAIN normalized_lots
        THEN Raise("KeyError")
        ELSE LET banknifty_premium ==
                     calculate_banknifty_position(banknifty_data, normalized_lots[Index])
                 constituents_premium ==
                     calculate_constituents_positions(constituents_data, normalized_lots)
             IN  Return(
                   [net_premium |-> banknifty_premium - constituents_premium.total_premium,
                    banknifty_position |->
                        [premium |-> banknifty_premium,
                         lots |-> normalized_lots[Index],
                         strike |-> Get(banknifty_data, "atm_strike", NoPrice),
                         straddle_price |-> Get(banknifty_data, "straddle_premium", NoPrice),
                         spot_price |-> Get(banknifty_data, "spot_price", NoPrice)],
                    constituents_positions |-> constituents_premium,
                    normalized_lots |-> normalized_lots,
                    portfolio_value |->
                        calculate_portfolio_value(constituents_data, normalized_lots),
                    timestamp |-> Get(md, "timestamp", NoPrice)])

\* calculate_dispersion_premium without the test of line 26.
calculate_dispersion_premium_unchecked(md) ==
    dispersion_of(md, Get(md, "banknifty", EmptyDict),
                  Get(md, "constituents", EmptyDict))

calculate_dispersion_premium(md) ==
    LET banknifty_data == Get(md, "banknifty", EmptyDict)
        constituents_data == Get(md, "constituents", EmptyDict)
    IN  IF DOMAIN banknifty_data = {} \/ DOMAIN constituents_data = {}
        THEN Raise("ValueError")
        ELSE dispersion_of(md, banknifty_data, constituents_data)

(***************************************************************************)
(* The OTM calculation.                                                    *)
(***************************************************************************)
\* The dict _get_otm_market_data builds for one instrument with a positive spot.
otm_quote(spot_price, strike_interval, level) ==
    LET atm_strike == calculate_atm_strike(spot_price)
        otm_call_strike == atm_strike + (level * strike_interval)
        otm_put_strike == atm_strike - (level * strike_interval)
        call_data == get_option_data(otm_call_strike)
        put_data == get_option_data(otm_put_strike)
    IN  [spot_price |-> spot_price,
         atm_strike |-> atm_strike,
         call_strike |-> otm_call_strike,
         put_strike |-> otm_put_strike,
         call |-> call_data,
         put |-> put_data,
         straddle_premium |-> call_data.ltp + put_data.ltp]

\* _get_otm_market_data
get_otm_market_data(md, level) ==
    LET banknifty_data == Get(md, "banknifty", EmptyDict)
        constituents_data == Get(md, "constituents", EmptyDict)
        spot_price == Get(banknifty_data, "spot_price", 0)
        taken == {s \in without_error(constituents_data) :
                     Get(constituents_data[s], "spot_price", 0) > 0}
    IN  [banknifty |->
             IF spot_price > 0
             THEN otm_quote(spot_price, IndexStrikeInterval, level)
             ELSE EmptyDict,
         constituents |->
             [s \in taken |->
                 otm_quote(constituents_data[s].spot_price, StockStrikeInterval, level)
                     @@ [weight |-> Get(constituents_data[s], "weight", 0),
                         lot_size |-> Get(constituents_data[s], "lot_size", 0)]],
         timestamp |-> Get(md, "timestamp", NoPrice)]

\* The dict returned for a level that could not be calculated.
otm_no_result(level, note) ==
    [level |-> level,
     net_premium |-> 0,
     banknifty_position |-> EmptyDict,
     constituents_positions |-> EmptyDict,
     note |-> note]

\* _calculate_otm_level_dispersion
calculate_otm_level_dispersion(otm_market_data, level) ==
    LET banknifty_data == Get(otm_market_data, "banknifty", EmptyDict)
        constituents_data == Get(otm_market_data, "constituents", EmptyDict)
        normalized_lots == calculate_normalized_lots(constituents_data, banknifty_data)
    IN  IF DOMAIN banknifty_data = {} \/ DOMAIN constituents_data = {}
        THEN otm_no_result(level, "Insufficient data")
        ELSE IF Index \notin DOMAIN normalized_lots
        THEN otm_no_result(level, "Error calculating")
        ELSE LET banknifty_premium ==
                     calculate_banknifty_position(banknifty_data, normalized_lots[Index])
                 constituents_premium ==
                     calculate_constituents_positions(constituents_data, normalized_lots)
             IN  [level |-> level,
                  net_premium |-> banknifty_premium - constituents_premium.total_premium,
                  banknifty_position |->
                      [premium |-> banknifty_premium,
                       lots |-> normalized_lots[Index],
                       call_strike |-> banknifty_data.call_strike,
                       put_strike |-> banknifty_data.put_strike,
                       straddle_price |-> banknifty_data.straddle_premium,
                       spot_price |-> banknifty_data.spot_price],
                  constituents_positions |-> constituents_premium,
                  normalized_lots |-> normalized_lots,
                  portfolio_value |->
                      calculate_portfolio_value(constituents_data, normalized_lots),
                  note |-> "OTM Level"]

\* Every level calculated at the strikes of the last level requested.
calculate_otm_dispersion_last_level(md, levels) ==
    [level \in 1..levels |->
        calculate_otm_level_dispersion(get_otm_market_data(md, levels), level)]

\* calculate_otm_dispersion: the results, keyed by level (key 'otm_level_<n>').
calculate_otm_dispersion(md, levels) ==
    [level \in 1..levels |->
        calculate_otm_level_dispersion(get_otm_market_data(md, level), level)]

\* The handler's levels without the clamp.
requested_levels_unclamped(args) == Get(args, "levels", DefaultLevels)

\* get_otm_levels, lines 72-74: the levels argument, 1 by default, at most 3.
requested_levels(args) ==
    LET levels == Get(args, "levels", DefaultLevels)
    IN  IF levels > OtmLevelClamp THEN OtmLevelClamp ELSE levels

(***************************************************************************)
(* The calls of the calculation.  Each takes the snapshot it is handed;    *)
(* the handlers take theirs from the data service.                         *)
(***************************************************************************)
\* The market_data dicts a caller hands to the calculation: the fetched
\* snapshot, and the same without its index leg, its constituent legs or both.
CalcInputs ==
    IF DOMAIN snapshot = {} THEN {[timestamp |-> now]}
    ELSE {snapshot,
          [constituents |-> snapshot.constituents, timestamp |-> snapshot.timestamp],
          [banknifty |-> snapshot.banknifty, timestamp |-> snapshot.timestamp],
          [timestamp |-> snapshot.timestamp]}

\* The levels argument of the otm-levels query: absent, or an integer.
LevelArgs == {EmptyDict} \cup {[levels |-> n] : n \in 0..MaxLevelsArg}

\* A fetch-all pass of the data service, with its prices.  A behaviour follows
\* one snapshot through the calculations: a later pass would replace the
\* snapshot whole, as the first pass sets it.
fetch_snapshot ==
    /\ DOMAIN snapshot = {}
    /\ \E a \in BrokerAnswers :
          /\ snapshot' = live_market_data(a)
          /\ fetched' = a
    /\ calc' = [op |-> "get_live_market_data"]
    /\ UNCHANGED service_vars

\* calculate_dispersion_premium(market_data), called directly.
atm_calculation(md) ==
    /\ calc' = [op |-> "calculate_dispersion_premium",
                arg |-> md,
                res |-> calculate_dispersion_premium(md)]
    /\ UNCHANGED <<snapshot, fetched>>
    /\ UNCHANGED service_vars

\* calculate_otm_dispersion(market_data, levels), called directly.
otm_calculation(md, levels) ==
    /\ calc' = [op |-> "calculate_otm_dispersion",
                arg |-> md,
                levels |-> levels,
                otm |-> [level \in 1..levels |-> get_otm_market_data(md, level)],
                res |-> Return(calculate_otm_dispersion(md, levels))]
    /\ UNCHANGED <<snapshot, fetched>>
    /\ UNCHANGED service_vars

\* The JSON answers of the handlers.
success(data) == [status |-> "success", data |-> data, code |-> 200]
failure(message) == [status |-> "error", message |-> message, code |-> 500]

\* get_dispersion_data (/api/dispersion-data).  The snapshot that
\* get_live_market_data_cached() hands to it is the one fetch_snapshot got.
get_dispersion_data ==
    /\ DOMAIN snapshot # {}
    /\ LET res == calculate_dispersion_premium(snapshot)
       IN  calc' = [op |-> "get_dispersion_data",
                    arg |-> snapshot,
                    res |-> res,
                    response |-> IF res.raised = "" THEN success(res.value)
                                 ELSE failure(res.raised)]
    /\ UNCHANGED <<snapshot, fetched>>
    /\ UNCHANGED service_vars

\* get_otm_levels (/api/otm-levels), on the snapshot of
\* get_live_market_data_cached() likewise.
get_otm_levels(args) ==
    /\ DOMAIN snapshot # {}
    /\ LET levels == requested_levels(args)
       IN  calc' = [op |-> "get_otm_levels",
                    arg |-> snapshot,
                    args |-> args,
                    otm |-> [level \in 1..levels |-> get_otm_market_data(snapshot, level)],
                    response |-> success(calculate_otm_dispersion(snapshot, levels))]
    /\ UNCHANGED <<snapshot, fetched>>
    /\ UNCHANGED service_vars

\* CalculationService.__init__(self, data_service): the parameter has no
\* default, so a call without it raises TypeError.
CalculationService(args) ==
    IF "data_service" \in DOMAIN args
    THEN Return([data_service |-> args.data_service])
    ELSE Raise("TypeError")

\* app.py, lines 21-22: the services as the application constructs them when
\* the module is loaded.
create_app ==
    /\ calc' = [op |-> "app", res |-> CalculationService(EmptyDict)]
    /\ UNCHANGED <<snapshot, fetched>>
    /\ UNCHANGED service_vars

\* test_mock_data (src/test_mock_data.py): the services constructed, a
\* snapshot fetched, the ATM calculation made; any exception makes the test
\* fail.  The snapshot its get_live_market_data() call would get is the one
\* fetch_snapshot got.
test_mock_data ==
    /\ DOMAIN snapshot # {}
    /\ LET calc_service == CalculationService(EmptyDict)
           res == IF calc_service.raised # "" THEN calc_service
                  ELSE calculate_dispersion_premium(snapshot)
       IN  calc' = [op |-> "test_mock_data",
                    arg |-> snapshot,
                    res |-> res,
                    passed |-> (res.raised = "")]
    /\ UNCHANGED <<snapshot, fetched>>
    /\ UNCHANGED service_vars

(***************************************************************************)
(* SpecCalc: snapshots with prices and the calculations made on them.      *)
(***************************************************************************)
NextCalc ==
    \/ create_app
    \/ test_mock_data
    \/ fetch_snapshot
    \/ \E md \in CalcInputs : atm_calculation(md)
    \/ \E md \in CalcInputs, levels \in 0..OtmLevelClamp :
          otm_calculation(md, levels)
    \/ get_dispersion_data
    \/ \E args \in LevelArgs : get_otm_levels(args)

SpecCalc == Init /\ [][NextCalc]_vars

(***************************************************************************)
(* The claims.                                                             *)
(***************************************************************************)
StartOps == {"start_websocket", "start_polling", "control_polling", "run_websocket"}
GetOps == {"get_live_market_data", "get_live_market_data_cached"}
Returns == {"hit", "return_cached", "return_uncached"}

\* C1: the push feed and the poller are never both active.
C1_PushPollExclusive == ~(websocket_active /\ polling_active)

\* C2: when the push connection closes while the aggregator is PushActive, the
\* push feed is marked inactive and the poll loop is started by the close
\* handler itself (no command), and every getSnapshot call that returns,
\* returns a snapshot.
C2_FailoverOnClose ==
    /\ (last.op = "on_websocket_close" /\ last.pre = "PushActive")
          => /\ ~websocket_active
             /\ polling_active
             /\ BagIn(ReadyPoll, poll)
    /\ (last.op \in GetOps /\ last.out \in Returns) => Len(last.md) = 1

\* C2's case: the close handler has run in PushActive and left PollActive.
C2_Witness ==
    /\ last.op = "on_websocket_close"
    /\ last.pre = "PushActive"
    /\ AggState = "PollActive"

\* C3: when the push feed reports an error while the aggregator is PushActive,
\* the push feed is marked inactive and the poller is started.
C3_FailoverOnError ==
    (last.op = "on_websocket_error" /\ last.pre = "PushActive")
        => (~websocket_active /\ polling_active)

\* C4: Start from Idle never leaves the aggregator Idle: with the push feed
\* unavailable the poller runs, and when the connection attempt of the started
\* thread fails the poller runs.
C4_StartLeavesIdle ==
    /\ (last.op = "start_websocket" /\ last.pre = "Idle"
            /\ last.out \in {"polling_fallback", "thread_error"})
          => AggState = "PollActive"
    /\ (last.op = "run_websocket" /\ last.out = "connect_error") => polling_active

\* C5: a stop of the active source that went through leaves the aggregator
\* Idle, and the aggregator then stays Idle until a start command: it leaves
\* Idle only by a start command (or the thread a start command started) or by
\* the failover of a lost connection, never by the close that the stop caused.
C5_StopLeadsToIdle ==
    /\ (last.op = "stop_websocket" /\ last.out = "stopped" /\ last.pre = "PushActive")
          => AggState = "Idle"
    /\ (last.op = "stop_polling" /\ last.pre = "PollActive") => AggState = "Idle"
    /\ (last.pre = "Idle" /\ AggState # "Idle")
          => \/ last.op \in StartOps
             \/ last.op = "on_websocket_close" /\ last.out = "disconnect"

\* C6: the push feed becomes active only in the thread that start_websocket
\* started, and such a thread is started by a start_websocket command only: no
\* other step (poll cycle, ticks, close, error, connect, getSnapshot) sets
\* websocket_active.
C6_PushOnlyByCommand ==
    [][/\ (~websocket_active /\ websocket_active')
            => (ws_spawned > 0 /\ last'.op = "run_websocket")
       /\ (ws_spawned' > ws_spawned)
            => (last'.op = "start_websocket" /\ last'.out = "thread_started")]_vars

\* C6's case: a retry of the push feed from PollActive has made it active.
C6_Witness ==
    /\ last.op = "run_websocket"
    /\ last.pre = "PollActive"
    /\ websocket_active

\* C7: a cached read hits, returning the stored snapshot, exactly when a
\* snapshot is stored and now - (time of the put) < cache_duration.
C7_CachedRead ==
    (last.op \in GetOps /\ last.out \in {"hit", "refresh"})
        => /\ (last.out = "hit")
                <=> (data_cache # <<>> /\ now - cache_timestamp < CacheDuration)
           /\ (last.out = "hit") => last.md = data_cache

\* C7's case: put at 0, read at 1 hits.
C7_Witness ==
    /\ last.op \in GetOps
    /\ last.out = "hit"
    /\ cache_timestamp = 0
    /\ now = 1

\* C7's other case: put at 0, read at 3 misses.
C7_WitnessMiss ==
    /\ last.op \in GetOps
    /\ last.out = "refresh"
    /\ data_cache # <<>>
    /\ cache_timestamp = 0
    /\ now = 3

\* C8: a getSnapshot call with caching enabled that missed the cache returns a
\* snapshot it has put into the cache.
C8_MissPublishes ==
    (\/ last.op = "get_live_market_data" /\ last.out = "return_cached"
     \/ last.op = "get_live_market_data_cached" /\ last.out = "return_uncached")
        => (data_cache = last.md /\ cache_timestamp = now)

\* C9: a poll cycle whose index quote could not be obtained neither puts its
\* snapshot into the cache nor hands it to the subscribers.
C9_FailedCycleNotPublished ==
    (last.op = "run_polling" /\ last.out \in {"put", "notified"})
        => last.md[1].banknifty = "quote"

\* C10: getSnapshot never returns a snapshot with an empty index quote (it
\* raises when the index fetch fails).
C10_RaisesOnIndexFailure ==
    (last.op \in GetOps /\ last.out \in Returns) => last.md[1].banknifty = "quote"

(***************************************************************************)
(* The claims about the snapshot's entries and the calculations.           *)
(***************************************************************************)
\* The fetch of instrument i did not succeed: the quote call raised, or the
\* answer carried no price.
FetchFailed(i) == kite /\ fetched[i] \in {BrokerError, NoPrice}

QuoteKeys == {"spot_price", "atm_strike", "call", "put", "straddle_premium"}

\* C11: every snapshot produced by a refresh has an entry for every
\* constituent of the table: a full quote (of the price fetched) if that
\* constituent's fetch succeeded, otherwise an entry tagged 'error'; a failing
\* constituent neither ends the pass nor touches the other entries.
C11_EntryPerConstituent ==
    (DOMAIN snapshot # {})
        => /\ DOMAIN snapshot.constituents = Basket
           /\ \A s \in Basket :
                 LET entry == snapshot.constituents[s]
                 IN  /\ {"weight", "lot_size"} \subseteq DOMAIN entry
                     /\ FetchFailed(s) <=> ("error" \in DOMAIN entry)
                     /\ ~FetchFailed(s)
                           => /\ QuoteKeys \subseteq DOMAIN entry
                              /\ entry.spot_price = get_spot_price(s, fetched)

\* C11 without the failing quote call: an entry per constituent, tagged
\* 'error' exactly when its try block raised.
C11_EntryPerConstituentRaised ==
    (DOMAIN snapshot # {})
        => /\ DOMAIN snapshot.constituents = Basket
           /\ \A s \in Basket :
                 LET entry == snapshot.constituents[s]
                 IN  /\ {"weight", "lot_size"} \subseteq DOMAIN entry
                     /\ (get_spot_price(s, fetched) = NoPrice) <=> ("error" \in DOMAIN entry)
                     /\ ("error" \notin DOMAIN entry) => QuoteKeys \subseteq DOMAIN entry

(***************************************************************************)
(* The calculation made last, for the claims about it.                     *)
(***************************************************************************)
Abs(x) == IF x < 0 THEN 0 - x ELSE x

AtmCall == calc.op \in {"calculate_dispersion_premium", "get_dispersion_data"}
AtmReturned == AtmCall /\ calc.res.raised = ""

\* The legs of the snapshot the calculation was handed.
ArgIndex == Get(calc.arg, "banknifty", EmptyDict)
ArgConstituents == Get(calc.arg, "constituents", EmptyDict)

ErrorTagged == {s \in DOMAIN ArgConstituents : "error" \in DOMAIN ArgConstituents[s]}
Priced ==
    {s \in DOMAIN ArgConstituents \ ErrorTagged : Get(ArgConstituents[s], "spot_price", 0) > 0}
ZeroPriced ==
    {s \in DOMAIN ArgConstituents \ ErrorTagged : Get(ArgConstituents[s], "spot_price", 0) = 0}

\* The constituent keys of a lot allocation.
AllocatedTo(normalized_lots) == DOMAIN normalized_lots \ {Index}

\* The results of the levels of an OTM calculation, and the market data each
\* was calculated from.
OtmCall == calc.op \in {"calculate_otm_dispersion", "get_otm_levels"}
OtmResults ==
    IF calc.op = "calculate_otm_dispersion" THEN calc.res.value ELSE calc.response.data

\* C12: every entry of a lot allocation that the normalizer returned (the
\* index and each constituent it was computed for) is an integer >= 1, also
\* when lots_needed is below 0.5.
C12_AtLeastOneLot ==
    /\ AtmReturned
          => \A i \in DOMAIN calc.res.value.normalized_lots :
                /\ calc.res.value.normalized_lots[i] \in Nat
                /\ calc.res.value.normalized_lots[i] >= 1
    /\ OtmCall
          => \A level \in DOMAIN OtmResults :
                ("normalized_lots" \in DOMAIN OtmResults[level])
                    => \A i \in DOMAIN OtmResults[level].normalized_lots :
                          /\ OtmResults[level].normalized_lots[i] \in Nat
                          /\ OtmResults[level].normalized_lots[i] >= 1

\* C12's case: a constituent whose target is less than half of one lot's value
\* (2 * target < spot * lot size) has got one lot.
C12_Witness ==
    /\ AtmReturned
    /\ \E s \in Priced :
          /\ 2 * ((ReferencePortfolio \div WeightScale) * ArgConstituents[s].weight)
                < ArgConstituents[s].spot_price * ArgConstituents[s].lot_size
          /\ calc.res.value.normalized_lots[s] = 1

\* C13: on a snapshot with its index leg whose constituents are Error-tagged
\* ones and at least one valid (priced) one, the ATM calculation returns, the
\* Error-tagged constituents are in none of the lot allocation, the legs and
\* the portfolio breakdown, and the valid ones are in all three.
C13_ErrorTaggedExcluded ==
    (/\ AtmCall
     /\ DOMAIN ArgIndex # {}
     /\ ErrorTagged # {}
     /\ Priced # {}
     /\ ZeroPriced = {})
        => /\ calc.res.raised = ""
           /\ AllocatedTo(calc.res.value.normalized_lots) = Priced
           /\ DOMAIN calc.res.value.constituents_positions.positions = Priced
           /\ DOMAIN calc.res.value.portfolio_value.breakdown = Priced

\* C13's case: a calculation that returned for a snapshot with an Error-tagged
\* constituent and a valid one.
C13_Witness ==
    /\ AtmReturned
    /\ DOMAIN ArgIndex # {}
    /\ ErrorTagged # {}
    /\ Priced # {}
    /\ ZeroPriced = {}
    /\ DOMAIN calc.res.value.constituents_positions.positions = Priced

\* C14: a constituent with a zero spot price and no Error tag is left out of
\* the allocation like an Error-tagged one: the ATM calculation on a snapshot
\* with its index leg and a priced constituent returns, and exactly the priced
\* constituents receive lots.
C14_ZeroPriceExcluded ==
    (/\ AtmCall
     /\ DOMAIN ArgIndex # {}
     /\ ZeroPriced # {}
     /\ Priced # {})
        => /\ calc.res.raised = ""
           /\ AllocatedTo(calc.res.value.normalized_lots) = Priced

\* C15: the ATM calculation on a snapshot with neither an index leg nor
\* constituent legs raises and returns nothing; and whenever the calculation
\* raises inside the dispersion-data query, the query answers with status
\* 'error' and a message, and no data.
C15_IncompleteRaises ==
    /\ (/\ calc.op = "calculate_dispersion_premium"
        /\ DOMAIN ArgIndex = {}
        /\ DOMAIN ArgConstituents = {})
          => /\ calc.res.raised = "ValueError"
             /\ DOMAIN calc.res.value = {}
    /\ (calc.op = "get_dispersion_data" /\ calc.res.raised # "")
          => /\ calc.response.status = "error"
             /\ calc.response.message = calc.res.raised
             /\ "data" \notin DOMAIN calc.response
    /\ (calc.op = "get_dispersion_data" /\ calc.res.raised = "")
          => /\ calc.response.status = "success"
             /\ calc.response.data = calc.res.value

\* C15's case: the calculation has raised on a snapshot lacking both legs.
C15_Witness ==
    /\ calc.op = "calculate_dispersion_premium"
    /\ "banknifty" \notin DOMAIN calc.arg
    /\ "constituents" \notin DOMAIN calc.arg
    /\ calc.res.raised = "ValueError"

\* C15's case at the boundary: the query has answered with an error.
C15_WitnessQuery ==
    /\ calc.op = "get_dispersion_data"
    /\ calc.response.status = "error"

\* n is max(1, round(num / den)): at least 1, and either within half a unit of
\* num / den or 1 with num / den at most a half.
IsLots(n, num, den) ==
    /\ n >= 1
    /\ \/ 2 * Abs(num - n * den) <= den
       \/ n = 1 /\ 2 * num <= den

\* C16: in the allocation of an ATM result each constituent in it has
\* lots = max(1, round((reference * weight / 100) / (spot * lot size))), and
\* with a positive index spot the index has
\* lots = max(1, round(reference / (index spot * index lot size))).  With
\* reference 60,000,000: index spot 45000 (lot size 15) gives 89 lots, and
\* spot 1650, lot size 550, weight 28.61 gives 19 lots.
C16_LotsFormula ==
    AtmReturned
        => /\ \A s \in AllocatedTo(calc.res.value.normalized_lots) :
                 IsLots(calc.res.value.normalized_lots[s],
                        (ReferencePortfolio \div WeightScale) * ArgConstituents[s].weight,
                        ArgConstituents[s].spot_price * ArgConstituents[s].lot_size)
           /\ (ArgIndex.spot_price > 0)
                 => IsLots(calc.res.value.normalized_lots[Index],
                           ReferencePortfolio, ArgIndex.spot_price * BankniftyLotSize)
           /\ (ArgIndex.spot_price = 45000) => calc.res.value.normalized_lots[Index] = 89
           /\ \A s \in AllocatedTo(calc.res.value.normalized_lots) :
                 (/\ ArgConstituents[s].spot_price = 1650
                  /\ ArgConstituents[s].lot_size = 550
                  /\ ArgConstituents[s].weight = 2861)
                     => calc.res.value.normalized_lots[s] = 19

\* C16's case: the worked example, 89 index lots and 19 lots.
C16_Witness ==
    /\ AtmReturned
    /\ ArgIndex.spot_price = 45000
    /\ 1 \in Priced
    /\ ArgConstituents[1].spot_price = 1650
    /\ calc.res.value.normalized_lots[Index] = 89
    /\ calc.res.value.normalized_lots[1] = 19

\* C17: in an ATM result each constituent's position value, spot * lot size *
\* lots, is within one lot value of its target reference * weight / 100, and
\* the portfolio total is within the sum of one lot value per constituent of
\* the sum of the targets (the reference, for weights summing to 100).
C17_WithinOneLot ==
    AtmReturned
        => LET breakdown == calc.res.value.portfolio_value.breakdown
               target == [s \in DOMAIN breakdown |->
                             (ReferencePortfolio \div WeightScale) * ArgConstituents[s].weight]
               one_lot == [s \in DOMAIN breakdown |->
                              ArgConstituents[s].spot_price * ArgConstituents[s].lot_size]
           IN  /\ \A s \in DOMAIN breakdown :
                     /\ breakdown[s] = one_lot[s] * calc.res.value.normalized_lots[s]
                     /\ Abs(breakdown[s] - target[s]) <= one_lot[s]
               /\ Abs(calc.res.value.portfolio_value.total_value
                         - SumOver(target, DOMAIN breakdown))
                     <= SumOver(one_lot, DOMAIN breakdown)
               /\ calc.res.value.portfolio_value.target_value = ReferencePortfolio

\* C17's case: every constituent priced and in the breakdown, the first at
\* 1650 * 550 * 19.
C17_Witness ==
    /\ AtmReturned
    /\ DOMAIN calc.res.value.portfolio_value.breakdown = Basket
    /\ calc.res.value.portfolio_value.breakdown[1] = 17242500

\* C18: in an ATM result the index premium is index straddle * index lot size
\* * index lots, each leg's premium is straddle * lot size * lots of that
\* constituent, the legs are exactly the constituents without an Error tag,
\* total_premium is the sum of the legs' premiums and net_premium is the index
\* premium less total_premium.
C18_NetPremium ==
    AtmReturned
        => LET v == calc.res.value
               legs == v.constituents_positions.positions
           IN  /\ v.banknifty_position.premium
                     = ArgIndex.straddle_premium * BankniftyLotSize * v.normalized_lots[Index]
               /\ v.banknifty_position.lots = v.normalized_lots[Index]
               /\ DOMAIN legs = DOMAIN ArgConstituents \ ErrorTagged
               /\ \A s \in DOMAIN legs :
                     legs[s].premium
                         = ArgConstituents[s].straddle_premium
                              * ArgConstituents[s].lot_size * v.normalized_lots[s]
               /\ v.constituents_positions.total_premium
                     = SumOver([s \in DOMAIN legs |-> legs[s].premium], DOMAIN legs)
               /\ v.net_premium
                     = v.banknifty_position.premium - v.constituents_positions.total_premium

\* C18's case: a result with an Error-tagged constituent left out and a leg
\* with a premium, at the mock index price: 1800 * 15 * 89 for the index.
C18_Witness ==
    /\ AtmReturned
    /\ ErrorTagged # {}
    /\ Priced # {}
    /\ calc.res.value.banknifty_position.premium = 2403000
    /\ calc.res.value.constituents_positions.total_premium > 0

\* C19: the otm-levels query with levels = N (1 when absent) answers with the
\* results of exactly the levels 1..min(N, 3), each under its own level:
\* levels = 5 gives the levels 1, 2 and 3.
C19_LevelsClamped ==
    (calc.op = "get_otm_levels")
        => LET N == IF "levels" \in DOMAIN calc.args THEN calc.args.levels ELSE 1
           IN  /\ calc.response.status = "success"
               /\ DOMAIN calc.response.data = 1..(IF N < 3 THEN N ELSE 3)
               /\ \A level \in DOMAIN calc.response.data :
                     calc.response.data[level].level = level

\* C19's case: levels = 5 has been answered with the levels 1, 2 and 3.
C19_Witness ==
    /\ calc.op = "get_otm_levels"
    /\ "levels" \in DOMAIN calc.args
    /\ calc.args.levels = 5
    /\ DOMAIN calc.response.data = {1, 2, 3}

\* The OTM quote q of level L has its call and put strikes L intervals above
\* and below its ATM strike, which is the multiple of the interval nearest to
\* the spot.
OtmStrikesAt(q, level, interval) ==
    /\ q.call_strike = q.atm_strike + level * interval
    /\ q.put_strike = q.atm_strike - level * interval
    /\ q.atm_strike % interval = 0
    /\ 2 * Abs(q.atm_strike - q.spot_price) <= interval

\* C20: for every level L in 1..3 of an OTM calculation and every instrument
\* with a positive spot, call strike = ATM strike + L * interval and put strike
\* = ATM strike - L * interval, the interval being 100 for the index and 50
\* for a constituent and the ATM strike the spot rounded to the nearest
\* multiple of the instrument's own interval.
C20_OtmStrikes ==
    OtmCall
        => \A level \in DOMAIN calc.otm :
              /\ (DOMAIN calc.otm[level].banknifty # {})
                    => OtmStrikesAt(calc.otm[level].banknifty, level, 100)
              /\ \A s \in DOMAIN calc.otm[level].constituents :
                    OtmStrikesAt(calc.otm[level].constituents[s], level, 50)

\* C20 for prices on the side of 10000 that the code expects (index above,
\* constituents at most): the strikes are as claimed.
C20_OtmStrikesUsualPrices ==
    OtmCall
        => \A level \in DOMAIN calc.otm :
              /\ (/\ DOMAIN calc.otm[level].banknifty # {}
                  /\ calc.otm[level].banknifty.spot_price > AtmThreshold)
                    => OtmStrikesAt(calc.otm[level].banknifty, level, 100)
              /\ \A s \in DOMAIN calc.otm[level].constituents :
                    (calc.otm[level].constituents[s].spot_price <= AtmThreshold)
                        => OtmStrikesAt(calc.otm[level].constituents[s], level, 50)

\* The snapshot the calculation was handed has positive spots: an index leg
\* with a positive spot, a constituent with a positive spot, and none with a
\* spot of zero.
PositiveSpots ==
    /\ DOMAIN ArgIndex # {}
    /\ Get(ArgIndex, "spot_price", 0) > 0
    /\ Priced # {}
    /\ ZeroPriced = {}

\* C21: for a snapshot with positive spots, the lot allocation and the
\* portfolio value of every level of an OTM calculation are those of the ATM
\* calculation on the same snapshot, and the result of level L is the same
\* whichever levels were asked for: it is the result of level L when only the
\* levels up to L are asked for and when all the levels are.
C21_OtmAllocationAsAtm ==
    (OtmCall /\ PositiveSpots)
        => LET atm == calculate_dispersion_premium(calc.arg)
           IN  /\ atm.raised = ""
               /\ \A level \in DOMAIN OtmResults :
                     /\ OtmResults[level].normalized_lots = atm.value.normalized_lots
                     /\ OtmResults[level].portfolio_value = atm.value.portfolio_value
                     /\ OtmResults[level] = calculate_otm_dispersion(calc.arg, level)[level]
                     /\ OtmResults[level]
                           = calculate_otm_dispersion(calc.arg, OtmLevelClamp)[level]

\* C21's case: three levels calculated on a snapshot with positive spots and
\* two priced constituents, the levels differing in their strikes.
C21_Witness ==
    /\ OtmCall
    /\ PositiveSpots
    /\ Priced = Basket
    /\ DOMAIN OtmResults = 1..3
    /\ OtmResults[1].normalized_lots[Index] = 89
    /\ OtmResults[1].banknifty_position.call_strike = 45100
    /\ OtmResults[3].banknifty_position.call_strike = 45300

(***************************************************************************)
(* The claims about the fan-out, the publication and the life cycle.       *)
(***************************************************************************)
\* The steps that hand a snapshot to the subscribers.
FanOut(l) ==
    \/ l.op = "run_polling" /\ l.out = "notified"
    \/ l.op = "on_websocket_ticks" /\ l.out \in {"notified_cached", "notified_fresh"}

\* C22: in a fan-out every registered callback is called with the one
\* snapshot, whichever of them raise; the fan-out of a poll cycle leaves the
\* cache and its timestamp as the cycle's put left them and the loop at its
\* head with polling still active; the fan-out of the tick handler leaves the
\* snapshot it delivered in the cache and the connection up for the next ticks.
C22_CallbackIsolated ==
    [][FanOut(last')
          => /\ DOMAIN last'.calls = data_callbacks
             /\ Len(last'.md) = 1
             /\ (last'.op = "run_polling")
                   => /\ UNCHANGED <<data_cache, cache_timestamp, polling_active>>
                      /\ BagIn(ReadyPoll, poll')
                      /\ BagCardinality(poll') = BagCardinality(poll)
             /\ (last'.op = "on_websocket_ticks")
                   => /\ data_cache' = last'.md
                      /\ conn' = "up"
                      /\ UNCHANGED <<websocket_active, poll>>]_vars

\* C22's case: a poll cycle's fan-out in which one callback raised and the
\* other was called all the same, the loop back at its head.
C22_Witness ==
    /\ last.op = "run_polling"
    /\ last.out = "notified"
    /\ \E cb \in DOMAIN last.calls : last.calls[cb] = "raised"
    /\ \E cb \in DOMAIN last.calls : last.calls[cb] = "returned"
    /\ polling_active
    /\ BagIn(ReadyPoll, poll)
    /\ data_cache = last.md

\* C22's case in the tick handler.
C22_WitnessTicks ==
    /\ last.op = "on_websocket_ticks"
    /\ \E cb \in DOMAIN last.calls : last.calls[cb] = "raised"
    /\ \E cb \in DOMAIN last.calls : last.calls[cb] = "returned"
    /\ data_cache = last.md

\* C23: every snapshot newly put into the cache is handed to every registered
\* subscriber: the put of a poll cycle is followed by that cycle's fan-out of
\* the snapshot put, the refresh of the tick handler and the cache-miss refresh
\* of a getSnapshot call hand over the snapshot they put; and the subscribers
\* are never called with a snapshot read from the cache (a hit).
C23_PublishedIsDelivered ==
    /\ (last.op = "run_polling" /\ last.out = "put")
          => BagIn([pc |-> "notify", md |-> last.md], poll)
    /\ (last.op = "run_polling" /\ last.out \in {"notified", "no_subscribers"})
          => DOMAIN last.calls = data_callbacks
    /\ (last.op = "on_websocket_ticks" /\ last.out = "notified_fresh")
          => (DOMAIN last.calls = data_callbacks /\ data_cache = last.md)
    /\ (last.op \in GetOps /\ last.out = "return_cached")
          => DOMAIN last.calls = data_callbacks
    /\ (DOMAIN last.calls # {}) => last.out # "notified_cached"

\* C23 for the poll cycle and the refresh of the tick handler alone: what they
\* put is handed to every registered subscriber.
C23_ProducersDeliver ==
    /\ (last.op = "run_polling" /\ last.out = "put")
          => BagIn([pc |-> "notify", md |-> last.md], poll)
    /\ (last.op = "run_polling" /\ last.out \in {"notified", "no_subscribers"})
          => DOMAIN last.calls = data_callbacks
    /\ (last.op = "on_websocket_ticks" /\ last.out = "notified_fresh")
          => (DOMAIN last.calls = data_callbacks /\ data_cache = last.md)

\* C23 for the getSnapshot refresh alone.
C23_RefreshDelivered ==
    (last.op \in GetOps /\ last.out = "return_cached")
        => DOMAIN last.calls = data_callbacks

\* C23 for the cache hit alone.
C23_NoDeliveryOnHit ==
    (DOMAIN last.calls # {}) => last.out # "notified_cached"

\* The steps that put a snapshot into the cache.
PutOuts == {"put", "return_cached", "notified_fresh"}

\* A snapshot of one refresh made by time t: the index quote, an entry for
\* every constituent and the capture time, as one fetch-all pass makes them.
Complete(md, t) ==
    /\ Len(md) = 1
    /\ md[1].timestamp \in 0..t
    /\ \E o \in [bn : BOOLEAN, err : SUBSET Symbols] : md[1] = market_data(o, md[1].timestamp)

\* C24: the cached value and its timestamp change only together, in a put
\* step, to that step's snapshot and the time of the step; a read that hits
\* returns the snapshot stored, whose capture precedes the stored timestamp;
\* and every snapshot a getSnapshot call returns is complete.
C24_AtomicPublication ==
    [][/\ (data_cache' # data_cache \/ cache_timestamp' # cache_timestamp)
             => /\ last'.out \in PutOuts
                /\ data_cache' = last'.md
                /\ cache_timestamp' = now'
       /\ (data_cache' # <<>>)
             => (Complete(data_cache', now') /\ data_cache'[1].timestamp <= cache_timestamp')
       /\ (last'.op \in GetOps /\ last'.out \in Returns)
             => /\ Complete(last'.md, now')
                /\ (last'.out = "hit") => last'.md = data_cache']_vars

\* C24's case: a read has hit while a writer holding another snapshot stands
\* before its put.
C24_Witness ==
    /\ last.op \in GetOps
    /\ last.out = "hit"
    /\ \E t \in BagToSet(poll) \cup BagToSet(req) : t.pc = "put" /\ t.md # data_cache
    /\ cache_timestamp < now

\* The start commands.
StartCommands == {"start_websocket", "start_polling", "control_polling"}

\* C25: a cleanup whose close of the push connection went through leaves the
\* push feed and the poller inactive, the connection no longer up and the
\* worker pool shut down; after it a poll loop at its loop head exits; and from
\* then on, unless a start command is given, neither source becomes active, no
\* connection comes up and no poll loop thread is started.
C25_StoppedStaysStopped ==
    [][/\ (last'.op = "cleanup" /\ last'.out # "close_error")
             => /\ ~websocket_active'
                /\ ~polling_active'
                /\ conn' # "up"
                /\ executor' = "shutdown"
       /\ (executor = "shutdown" /\ ~polling_active /\ last'.op = "run_polling"
             /\ BagIn(ReadyPoll, poll) /\ ~BagIn(ReadyPoll, poll'))
             => last'.out = "exit"
       /\ (executor = "shutdown" /\ last'.op \notin StartCommands)
             => /\ websocket_active' => websocket_active
                /\ polling_active' => polling_active
                /\ (conn' = "up") => (conn = "up")
                /\ BagCardinality(poll') <= BagCardinality(poll)
                /\ ws_spawned' <= ws_spawned]_vars

\* C25 for what the cleanup does do: it leaves the poller inactive and the
\* worker pool shut down, the push feed marked inactive unless the close
\* raised, and the connection of a feed that was marked active no longer up;
\* and a poll loop at its loop head then exits.
C25_CleanupStops ==
    [][/\ (last'.op = "cleanup")
             => /\ ~polling_active'
                /\ executor' = "shutdown"
                /\ (last'.out # "close_error") => ~websocket_active'
                /\ (last'.out = "stopped") => conn' # "up"
       /\ (executor = "shutdown" /\ ~polling_active /\ last'.op = "run_polling"
             /\ BagIn(ReadyPoll, poll) /\ ~BagIn(ReadyPoll, poll'))
             => last'.out = "exit"]_vars

\* C25 for the time after the cleanup alone.
C25_NothingStartsAfterCleanup ==
    [][(executor = "shutdown" /\ last'.op \notin StartCommands)
          => /\ websocket_active' => websocket_active
             /\ polling_active' => polling_active
             /\ (conn' = "up") => (conn = "up")
             /\ BagCardinality(poll') <= BagCardinality(poll)
             /\ ws_spawned' <= ws_spawned]_vars

\* C26: without broker credentials, the services constructed as the
\* application and the mock-data test construct them, the construction raises
\* nothing, and the test's fetch and ATM calculation complete without an error
\* and give an index position and a position for every constituent.
C26_MockDataRuns ==
    /\ (calc.op = "app" /\ ~kite) => calc.res.raised = ""
    /\ (calc.op = "test_mock_data" /\ ~kite)
          => /\ calc.res.raised = ""
             /\ calc.passed
             /\ calc.res.value.banknifty_position.lots >= 1
             /\ DOMAIN calc.res.value.constituents_positions.positions = Basket

\* C26 for a calculation service that was given its data service: without
\* credentials the dispersion-data query answers from the mock prices with an
\* index position and a position for every constituent.
C26_MockDataCalculates ==
    (calc.op = "get_dispersion_data" /\ ~kite)
        => /\ calc.res.raised = ""
           /\ calc.res.value.banknifty_position.lots = 89
           /\ calc.res.value.banknifty_position.spot_price = MockIndexPrice
           /\ DOMAIN calc.res.value.constituents_positions.positions = Basket
           /\ \A s \in Basket :
                 calc.res.value.constituents_positions.positions[s].spot_price = MockPrices[s]

\* A poll cycle has ended in which the fetch failed (no index quote, or a
\* constituent tagged 'error') or a callback raised.
FailedCycle ==
    /\ last.op = "run_polling"
    /\ last.out \in {"notified", "no_subscribers"}
    /\ \/ last.md[1].banknifty = "empty"
       \/ \E s \in Symbols : last.md[1].constituents[s] = "error"
       \/ \E cb \in DOMAIN last.calls : last.calls[cb] = "raised"

\* The poll loop has made the fetch of a further cycle, or polling was stopped.
PollContinues ==
    \/ ~polling_active
    \/ last.op = "run_polling" /\ last.out = "fetched"

\* C27: a poll cycle that failed is followed, while polling stays active, by
\* the fetch of a further cycle; a request inside a refresh is answered; and
\* every answer of a request carries a snapshot.
C27_NoFailureTerminates ==
    /\ FailedCycle ~> PollContinues
    /\ (req # EmptyBag) ~> (last.op \in GetOps /\ last.out \in Returns)
    /\ []((last.op \in GetOps /\ last.out \in Returns) => Complete(last.md, now))

\* C27's case: a cycle has ended whose fetch failed and in which a callback
\* raised, polling still active and the loop at its head.
C27_Witness ==
    /\ FailedCycle
    /\ last.md[1].banknifty = "empty"
    /\ \E cb \in DOMAIN last.calls : last.calls[cb] = "raised"
    /\ polling_active
    /\ BagIn(ReadyPoll, poll)

\* C27's other case: a request has been answered with a snapshot whose index
\* fetch had failed after a failed cycle's snapshot was put.
C27_WitnessRequest ==
    /\ last.op \in GetOps
    /\ last.out \in Returns
    /\ data_cache # <<>>
    /\ data_cache[1].banknifty = "empty"

\* The commands that request a poll interval: set_polling_interval, and the
\* start and set_interval actions of control_polling.
IntervalCommand(l) ==
    \/ l.op = "set_polling_interval"
    \/ l.op = "control_polling" /\ l.out = "start"

\* C28: the poll interval is 4 initially and at least 1 ever after; a command
\* that requests an interval leaves max(1, requested value), and no other step
\* changes the interval, so that it is always max(1, last requested value).
C28_IntervalAtLeastOne ==
    /\ polling_interval = 4
    /\ [][/\ polling_interval' >= 1
          /\ IntervalCommand(last')
                => polling_interval' = (IF last'.arg >= 1 THEN last'.arg ELSE 1)
          /\ ~IntervalCommand(last') => UNCHANGED polling_interval]_vars

\* C28's case: a negative interval was requested of a running poller and the
\* interval is 1.
C28_Witness ==
    /\ IntervalCommand(last)
    /\ last.arg < 0
    /\ polling_interval = 1
    /\ polling_active

\* C28's other case: the start action of control_polling has set an interval
\* above 1 as requested.
C28_WitnessStart ==
    /\ last.op = "control_polling"
    /\ last.arg = 3
    /\ polling_interval = 3

\* The request threads of get_live_market_data(use_cache=True) inside a refresh.
Refreshing == {t \in BagToSet(req) : t.use_cache}

\* C29: a get_live_market_data() call that misses the cache starts a refresh of
\* its own whether or not another caller's refresh is under way; a caller
\* inside a refresh can always take its next step (it waits for no other
\* caller); each returns the complete snapshot of its own refresh; and its put
\* leaves exactly that snapshot in the cache with the time of that put, so that
\* after two concurrent refreshes the cache holds the snapshot and the
\* timestamp of the one that put last.
C29_ConcurrentRefresh ==
    /\ [](\A t \in BagToSet(req) :
             /\ (t.pc = "fetch") => ENABLED get_live_market_data_fetch(t)
             /\ (t.pc = "put") => ENABLED get_live_market_data_put(t))
    /\ [][/\ (last'.op = "get_live_market_data" /\ last'.out = "refresh")
                => /\ ~CacheFresh
                   /\ BagCardinality(req') = BagCardinality(req) + 1
          /\ (last'.op = "get_live_market_data" /\ last'.out = "return_cached")
                => /\ Complete(last'.md, now')
                   /\ \E t \in Refreshing : t.md = last'.md /\ req' = Removed(req, t)
                   /\ data_cache' = last'.md
                   /\ cache_timestamp' = now']_vars

\* C29's case: two callers have missed the cache and each has made its own
\* refresh; their snapshots differ and neither has put yet.
C29_Witness ==
    /\ BagCardinality(req) = 2
    /\ \E t, u \in Refreshing :
          /\ t.pc = "put"
          /\ u.pc = "put"
          /\ t.md # u.md

\* C29's case later: the first of two concurrent callers has returned, the
\* cache holds its snapshot and the second stands before its put of another.
C29_WitnessFirstReturned ==
    /\ last.op = "get_live_market_data"
    /\ last.out = "return_cached"
    /\ data_cache = last.md
    /\ \E u \in Refreshing : u.pc = "put" /\ u.md # data_cache

\* C30: at most one poll loop thread is running at any time.
C30_OnePollLoop == BagCardinality(poll) <= 1

\* C30 for a start while polling is active alone: it starts no loop.
C30_StartWhileActive ==
    [][(polling_active /\ last'.op \in StartCommands \cup {"on_websocket_close"})
          => poll' = poll]_vars

\* C30 for the starting of loops alone: a poll loop thread is started only by
\* a step that turns polling from inactive to active, and one at a time.
C30_OneLoopPerStart ==
    [][BagCardinality(poll') > BagCardinality(poll)
          => (~polling_active /\ polling_active'
                /\ BagCardinality(poll') = BagCardinality(poll) + 1)]_vars


(***************************************************************************)
(* The claims about the prices, the lock and the results.                  *)
(***************************************************************************)

\* C31: every call of get_concurrent_quotes returns, never raises, and gives
\* a value for every requested symbol, however many calls came before.
C31_PoolStaysUsable ==
    (last.op = "get_concurrent_quotes")
        => (last.out = "returned" /\ DOMAIN last.quotes = last.arg)

\* What holds: a call that finds the pool open, or that does not need the
\* pool, returns a value for every requested symbol.
C31_OpenPoolReturns ==
    (last.op = "get_concurrent_quotes"
     /\ (last.pool = "open" \/ last.arg = {} \/ ~kite))
        => (last.out = "returned" /\ DOMAIN last.quotes = last.arg)


\* The threads that are inside a network fetch or inside the subscriber
\* callbacks.
InFetchOrCallback == {t \in Threads : threads[t].pc \in {"fetch", "callbacks"}}

\* C32: the thread that holds cache_lock is comparing the age and reading the
\* slot, or swapping value and timestamp, never fetching or running a
\* callback; so whenever the lock is held its holder can release it by its
\* own next step, whatever the other threads and the sources do.
C32_LockNotHeldAcrossFetch ==
    /\ cache_lock \notin InFetchOrCallback
    /\ (cache_lock # NoThread) =>
          /\ threads[cache_lock].pc \in {"read", "swap"}
          /\ ENABLED (lock_read(cache_lock) \/ lock_swap(cache_lock))

\* A cached read holds the lock while another thread is inside its fetch.
C32_Witness ==
    /\ cache_lock # NoThread
    /\ threads[cache_lock].caller = "get_live_market_data_cached"
    /\ threads[cache_lock].pc = "read"
    /\ InFetchOrCallback # {}

\* The poll loop is inside its callbacks, after its swap, with the lock free
\* or held by a reader.
C32_WitnessCallback ==
    /\ \E t \in Threads : threads[t].pc = "callbacks" /\ data_callbacks # {}
    /\ data_cache # <<>>
    /\ last.op = "get_live_market_data" /\ last.out = "acquired"


\* C33: the OTM calculation on a snapshot with neither an index leg nor
\* constituent legs raises, as the ATM calculation does, and returns no
\* result for any level.
C33_OtmIncompleteRaises ==
    (/\ calc.op = "calculate_otm_dispersion"
     /\ calc.levels >= 1
     /\ DOMAIN ArgIndex = {}
     /\ DOMAIN ArgConstituents = {})
        => /\ calc.res.raised # ""
           /\ DOMAIN calc.res.value = {}

\* What holds: on such a snapshot the OTM calculation returns, for every
\* level asked for, a result without positions, with net premium 0 and the
\* note of insufficient data.
C33_OtmIncompleteReturns ==
    (/\ calc.op = "calculate_otm_dispersion"
     /\ DOMAIN ArgIndex = {}
     /\ DOMAIN ArgConstituents = {})
        => /\ calc.res.raised = ""
           /\ DOMAIN calc.res.value = 1..calc.levels
           /\ \A level \in 1..calc.levels :
                 calc.res.value[level] = otm_no_result(level, "Insufficient data")


\* The weights of the static table, each between 0 and 100 percent, and its
\* lot sizes, each a positive integer, the index's too.
TableWellFormed ==
    /\ \A i \in DOMAIN BANKNIFTY_CONSTITUENTS :
          /\ BANKNIFTY_CONSTITUENTS[i].weight \in 0..WeightScale
          /\ BANKNIFTY_CONSTITUENTS[i].lot_size \in Nat \ {0}
    /\ BankniftyLotSize \in Nat \ {0}

\* C34: in the static table every constituent has a weight between 0 and
\* 100 and a positive integer lot size, the index has a positive integer lot
\* size, and the weights sum to 100 within one percentage point; the table
\* is the one every fetched snapshot takes its weights and lot sizes from.
C34_StaticTable ==
    /\ TableWellFormed
    /\ get_total_weight >= WeightScale - (WeightScale \div 100)
    /\ get_total_weight <= WeightScale + (WeightScale \div 100)
    /\ (DOMAIN snapshot # {}) =>
          \A s \in DOMAIN snapshot.constituents :
             /\ snapshot.constituents[s].weight = BANKNIFTY_CONSTITUENTS[s].weight
             /\ snapshot.constituents[s].lot_size = BANKNIFTY_CONSTITUENTS[s].lot_size

\* What holds: the table is well formed, its weights sum to 95.19, and
\* every snapshot carries the table's weights and lot sizes.
C34_TableAsWritten ==
    /\ TableWellFormed
    /\ get_total_weight = 9519
    /\ (DOMAIN snapshot # {}) =>
          \A s \in DOMAIN snapshot.constituents :
             /\ snapshot.constituents[s].weight = BANKNIFTY_CONSTITUENTS[s].weight
             /\ snapshot.constituents[s].lot_size = BANKNIFTY_CONSTITUENTS[s].lot_size


\* C35: a put never replaces the cached snapshot by one captured earlier:
\* the capture time of the cached snapshot never decreases, whatever the
\* order in which refreshes and poll cycles fetch and put.
C35_CaptureTimeMonotone ==
    [][(data_cache # <<>> /\ data_cache' # <<>>)
          => data_cache'[1].timestamp >= data_cache[1].timestamp]_vars

\* What holds: the time of the put never decreases, and the snapshot cached
\* was captured no later than it was put.
C35_PutTimeMonotone ==
    [][/\ cache_timestamp' >= cache_timestamp
       /\ (data_cache' # <<>>) => data_cache'[1].timestamp <= cache_timestamp']_vars


\* C36: a spot price served from the tick map comes from a tick that the
\* current push connection delivered: never from a tick stored before a
\* disconnect, neither from _get_spot_price nor from get_concurrent_quotes.
C36_TicksOfCurrentConnection ==
    /\ (last.op = "get_spot_price" /\ last.out = "tick")
          => last.arg \notin stale_ticks
    /\ (last.op = "get_concurrent_quotes" /\ last.out = "returned")
          => \A symbol \in last.arg :
                (last.quotes[symbol] = "tick")
                   => symbol \notin stale_ticks

\* What holds: a price comes from the tick map only while the websocket flag
\* is set, and only for an instrument that has a stored tick; and after the
\* failover to polling, once the flag is cleared, no price comes from it.
C36_TicksOnlyWhileFlagged ==
    /\ (last.op = "get_spot_price" /\ last.out = "tick")
          => (websocket_active /\ last.arg \in live_quotes)
    /\ (last.op = "get_concurrent_quotes" /\ last.out = "returned")
          => \A symbol \in last.arg :
                (last.quotes[symbol] = "tick")
                   => (websocket_active /\ symbol \in live_quotes)


\* C37: a callback passed to start_websocket or to start_polling is among
\* the subscribers when the call returns, whatever state the call found.
C37_CallbackRegistered ==
    [][\A cb \in Callbacks :
          (start_websocket(cb) \/ start_polling(cb)) => cb \in data_callbacks']_vars

\* What holds: the callback is registered by a call that starts the poll
\* loop or the push thread, and a call that starts neither leaves the
\* subscribers as they were.
C37_RegisteredWhenStarted ==
    [][\A cb \in Callbacks :
          (start_websocket(cb) \/ start_polling(cb))
             => IF last'.out \in {"started", "thread_started", "thread_error"}
                   \/ (last'.out = "polling_fallback" /\ ~polling_active)
                THEN data_callbacks' = data_callbacks \cup {cb}
                ELSE data_callbacks' = data_callbacks]_vars


\* The step in which the poll loop has called its subscribers.
PollNotifies == last'.op = "run_polling" /\ last'.out = "notified"

\* C38: the poll loop calls its subscribers with a snapshot it has put, and
\* a cached read made inside the callback, while the cache is fresh, gets
\* that snapshot or one captured later, never one captured earlier.
C38_CacheAtLeastNotified ==
    [][PollNotifies
          => /\ \E t \in BagToSet(poll) : t.pc = "notify" /\ t.md = last'.md
             /\ data_cache # <<>>
             /\ CacheFresh => data_cache[1].timestamp >= last'.md[1].timestamp]_vars

\* What holds: the snapshot delivered was put before the call, so the cache
\* is not empty and its last put is no older than the snapshot's capture.
C38_PutBeforeNotify ==
    [][PollNotifies
          => /\ \E t \in BagToSet(poll) : t.pc = "notify" /\ t.md = last'.md
             /\ data_cache # <<>>
             /\ cache_timestamp >= last'.md[1].timestamp]_vars


\* The legs, the breakdown and the allocation of one result agree.  A result
\* returned for a level that could not be calculated has none of the three.
ResultConsistent(r) ==
    LET positions == Get(Get(r, "constituents_positions", EmptyDict), "positions",
                         EmptyDict)
        portfolio_value == Get(r, "portfolio_value", EmptyDict)
        breakdown == Get(portfolio_value, "breakdown", EmptyDict)
        normalized_lots == Get(r, "normalized_lots", EmptyDict)
    IN  /\ DOMAIN positions = DOMAIN breakdown
        /\ DOMAIN positions = AllocatedTo(normalized_lots)
        /\ \A s \in DOMAIN positions : positions[s].lots = normalized_lots[s]
        /\ Get(portfolio_value, "total_value", 0) = SumOver(breakdown, DOMAIN breakdown)

\* C39: in every result the ATM or the OTM calculation returns, the
\* constituent legs, the keys of the portfolio-value breakdown and the
\* constituent entries of the allocation are the same set, each leg's lots
\* are its allocation entry, and the portfolio total is the sum of the
\* breakdown.
C39_ResultConsistent ==
    /\ AtmReturned => ResultConsistent(calc.res.value)
    /\ OtmCall => \A level \in DOMAIN OtmResults : ResultConsistent(OtmResults[level])

\* C39's case: the ATM calculation has returned legs for the priced
\* constituents of a snapshot that has an error-tagged entry as well.
C39_Witness ==
    /\ AtmReturned
    /\ ErrorTagged # {}
    /\ DOMAIN calc.res.value.constituents_positions.positions # {}
    /\ DOMAIN calc.res.value.portfolio_value.breakdown # DOMAIN ArgConstituents
    /\ calc.res.value.portfolio_value.total_value > 0

\* The same for the third level of an OTM calculation.
C39_WitnessOtm ==
    /\ OtmCall
    /\ ErrorTagged # {}
    /\ 3 \in DOMAIN OtmResults
    /\ "portfolio_value" \in DOMAIN OtmResults[3]
    /\ DOMAIN OtmResults[3].portfolio_value.breakdown # {}
    /\ DOMAIN OtmResults[3].portfolio_value.breakdown # DOMAIN ArgConstituents

====
